---- MODULE Spec2Model ----
(***************************************************************************)
(* Sports Tournament Scheduling: the cardinality encoders, the constraint  *)
(* models (SAT, SMT, MILP), the result extractors and the optimality       *)
(* certification of the four pipelines, as state machines.                 *)
(*                                                                         *)
(* The external solvers are oracles: a solver may return any assignment    *)
(* that satisfies the constraint set it was given.                         *)
(***************************************************************************)
EXTENDS Integers, Sequences, FiniteSets, TLC

VARIABLES
    bool_vals,      \* CardinalityEncoder: truth value of each input proposition
    np_accepts,     \* answer of the check of exactly_one_np under bool_vals
    he_accepts,     \* answer of the check of exactly_one_he under bool_vals
    sat_model,      \* Sat_Model under construction: its variables so far
    n,              \* ModelBuilder: the number of teams
    kind,           \* which constraint model was built
    symmetry,       \* whether the symmetry-breaking constraints were added
    opp,            \* week -> the opponent variables of the week
    period,         \* week -> the period variables of the week
    home,           \* week -> the home variables of the week
    models,         \* the assignments that satisfy the constraints added to
                    \* the solver, until its check
    status,         \* "built", then the answer of the solver's check
    schedule,       \* the week-based schedule the model function extracted
    sol_matrix,     \* the periods x weeks matrix `sol` of the schedule
    total_breaks,   \* the break count computed from the model
    breaks,         \* MILP: the values of the binaries breaks[w][t]
    accepts,        \* whether each constraint set holds under opp, period, home
    pipeline,       \* OptimalityCertifier: which pipeline runs
    input,          \* the arguments of the run and what the solver does in it
    pc,             \* the position of the run
    loop,           \* the locals of the improvement loop of model_optimized
    result,         \* the dictionary returned by the parser / model function
    record,         \* the record of the run handed to the result store
    store,          \* ResultStore: team count -> the file <n>.json
    first_store,    \* the files before the first save
    saves,          \* the save_solution_to_json calls completed so far
    savers,         \* the concurrent save_solution_to_json calls
    batch,          \* BatchDriver: the locals of the batch loop
    call            \* EntryPoint: a call of a driver or of a model function

cardVars == <<bool_vals, np_accepts, he_accepts, sat_model>>
schedVars == <<n, kind, symmetry, opp, period, home, models, status, schedule,
               sol_matrix, total_breaks, breaks, accepts>>
certVars == <<pipeline, input, pc, loop, result, record>>
storeVars == <<store, first_store, saves, savers, batch, call>>
vars == <<cardVars, schedVars, certVars, storeVars>>

(***************************************************************************)
(* Bounds of the model.                                                    *)
(***************************************************************************)
\* largest number k of propositions given to an exactly-one encoder
MaxK == 10
\* largest number of teams (the team counts are the even numbers 2..MaxTeams)
MaxTeams == 6
\* largest number of teams for which the constraint sets without the
\* symmetry-breaking constraints are built and solved
MaxFreeTeams == 4
\* of the models of a constraint set, those with at most
\* n - 2 + MaxExtraBreaks breaks are enumerated: a model with fewer than
\* n - 2 breaks is always among them
MaxExtraBreaks == 0

(***************************************************************************)
(* CardinalityEncoder (SAT/STS_SAT_satisf.py, lines 12-32).                *)
(*                                                                         *)
(* A literal is [v |-> variable, neg |-> BOOLEAN].  An input proposition   *)
(* is the variable <<"x", i>>; the auxiliary Bool(f"y_{name}") is the      *)
(* variable <<"y", "_">> \o name, where name is the sequence of the       *)
(* characters of the Python string.  An at-most-one formula,               *)
(* And([Not(And(a, b)) ...]),                                              *)
(* is the set of its pairs <<a, b>>.                                       *)
(***************************************************************************)
Lit(v) == [v |-> v, neg |-> FALSE]

\* z3's Not(y)
Not(l) == [v |-> l.v, neg |-> ~l.neg]

\* the list of the k input propositions
InputVars(k) == [i \in 1..k |-> Lit(<<"x", i>>)]

\* bool_vars[a:] of Python, 0-indexed a
Slice(s, a) == [i \in 1..(IF Len(s) > a THEN Len(s) - a ELSE 0) |-> s[i + a]]

\* bool_vars[:a] of Python
Prefix(s, a) == [i \in 1..(IF Len(s) < a THEN Len(s) ELSE a) |-> s[i]]

\* itertools.combinations(bool_vars, 2): the pairs of positions i < j
combinations2(s) ==
    {<<s[q[1]], s[q[2]]>> : q \in {r \in (1..Len(s)) \X (1..Len(s)) : r[1] < r[2]}}

\* at_least_one_np: Or(bool_vars), the list of the disjuncts
at_least_one_np(bool_vars) == bool_vars

\* at_most_one_np: And([Not(And(pair[0], pair[1])) for pair in combinations])
at_most_one_np(bool_vars) == combinations2(bool_vars)

\* at_least_one_he
at_least_one_he(bool_vars) == at_least_one_np(bool_vars)

\* a plausible slip of at_most_one_he: the recursion is given y, not Not(y)
RECURSIVE at_most_one_he_same_sign(_, _)
at_most_one_he_same_sign(bool_vars, name) ==
    IF Len(bool_vars) <= 4
    THEN at_most_one_np(bool_vars)
    ELSE LET y == Lit(<<"y", "_">> \o name)
         IN  at_most_one_np(Append(Prefix(bool_vars, 3), y))
             \cup at_most_one_he_same_sign(Append(Slice(bool_vars, 3), y),
                                           Append(name, "_"))

\* a plausible slip of at_most_one_he: the pairwise base taken up to 3
\* propositions only
RECURSIVE at_most_one_he_base_of_three(_, _)
at_most_one_he_base_of_three(bool_vars, name) ==
    IF Len(bool_vars) <= 3
    THEN at_most_one_np(bool_vars)
    ELSE LET y == Lit(<<"y", "_">> \o name)
         IN  at_most_one_np(Append(Prefix(bool_vars, 3), y))
             \cup at_most_one_he_base_of_three(Append(Slice(bool_vars, 3), Not(y)),
                                               Append(name, "_"))

\* a plausible slip of at_most_one_he: the name handed down as it is
RECURSIVE at_most_one_he_same_name(_, _)
at_most_one_he_same_name(bool_vars, name) ==
    IF Len(bool_vars) <= 4
    THEN at_most_one_np(bool_vars)
    ELSE LET y == Lit(<<"y", "_">> \o name)
         IN  at_most_one_np(Append(Prefix(bool_vars, 3), y))
             \cup at_most_one_he_same_name(Append(Slice(bool_vars, 3), Not(y)),
                                           name)

\* at_most_one_he: Heule's encoding, one auxiliary y per level
RECURSIVE at_most_one_he(_, _)
at_most_one_he(bool_vars, name) ==
    IF Len(bool_vars) <= 4
    THEN at_most_one_np(bool_vars)
    ELSE LET y == Lit(<<"y", "_">> \o name)
         IN  at_most_one_np(Append(Prefix(bool_vars, 3), y))
             \cup at_most_one_he(Append(Slice(bool_vars, 3), Not(y)),
                                 Append(name, "_"))

\* at_most_one_he, lines 26-29: the number of calls of Bool(f"y_{name}") it
\* makes on k literals
RECURSIVE he_bool_calls(_)
he_bool_calls(k) == IF k <= 4 THEN 0 ELSE 1 + he_bool_calls(k - 2)

\* the variables of a set of pairs
VarsOf(pairs) == {p[1].v : p \in pairs} \cup {p[2].v : p \in pairs}

\* the auxiliary variables of a set of pairs
AuxOf(pairs) == {v \in VarsOf(pairs) : v[1] = "y"}

\* the value of a literal under the inputs xs and the auxiliaries ys
Holds(l, xs, ys) ==
    LET val == IF l.v[1] = "x" THEN xs[l.v[2]] ELSE ys[l.v]
    IN  IF l.neg THEN ~val ELSE val

\* the value of Or(lits) /\ And(Not(And(a, b)) for the pairs)
Satisfies(alo, amo, xs, ys) ==
    /\ \E i \in 1..Len(alo) : Holds(alo[i], xs, ys)
    /\ \A p \in amo : ~(Holds(p[1], xs, ys) /\ Holds(p[2], xs, ys))

\* exactly_one_np under the inputs xs: And(at_least_one_np, at_most_one_np)
exactly_one_np(xs) ==
    LET bv == InputVars(Len(xs))
    IN  Satisfies(at_least_one_np(bv), at_most_one_np(bv), xs, <<>>)

\* exactly_one_he under the inputs xs: the solver is free in the auxiliaries
exactly_one_he(xs, name) ==
    LET bv  == InputVars(Len(xs))
        amo == at_most_one_he(bv, name)
    IN  \E ys \in [AuxOf(amo) -> BOOLEAN] :
            Satisfies(at_least_one_he(bv), amo, xs, ys)

\* the name given to the encoder (any: the claim does not depend on it)
CardName == <<"c", "a", "r", "d">>

\* sat/unsat as z3 answers it
Answer(b) == IF b THEN "sat" ELSE "unsat"

(***************************************************************************)
(* ProblemParameters and the decision variables.                           *)
(*                                                                         *)
(* Teams, weeks and periods are 0-indexed as in the code.  The solver's    *)
(* model is kept week by week, in the variables of the model that was      *)
(* built:                                                                  *)
(*   smt:  opp[w] and period[w] are arrays of integers, home[w] an array   *)
(*         of Booleans (the cells of the teams);                           *)
(*   sat:  opp[w] is the set of the <<i, j>>, i < j, whose match_w_i_j is  *)
(*         true, period[w] the set of the <<t, p>> whose period_w_t_p is   *)
(*         true, home[w] an array of Booleans;                             *)
(*   mip:  opp[w] is the set of the <<i, j>> whose opp_w_i_j is 1,         *)
(*         period[w] the set of the <<t, p>> whose period_w_t_p is 1,      *)
(*         home[w] an array of 0/1 values.                                 *)
(***************************************************************************)
W(k) == k - 1
P(k) == k \div 2
Teams(k) == 0..(k - 1)
Weeks(k) == 0..(W(k) - 1)
Periods(k) == 0..(P(k) - 1)

\* the team counts of the model: n % 2 == 0
TeamCounts == {k \in 2..MaxTeams : k % 2 = 0}

\* the values an integer opponent / period variable is drawn from: the range
\* the constraints allow and one value on either side of it
RawInts(k) == (-1)..k
RawPeriods(k) == (-1)..P(k)

\* Sum([If(c, 1, 0) for x in S])
CountIf(S, Test(_)) == Cardinality({x \in S : Test(x)})

\* an enumerable set as an explicit set (evaluated once)
Explicit(S) == {x : x \in S}

\* a function as an explicit table (evaluated once)
Memo(f) == f @@ <<>>

(***************************************************************************)
(* SMT model (SMT/STS_SMT_satisf.py, model_satisfiable, lines 32-88, and   *)
(* SMT/STS_SMT_opt.py, model_optimized, lines 41-120).                     *)
(* An array is total over the integers: a cell outside the teams is free,  *)
(* so a constraint on such a cell alone can be met.                        *)
(***************************************************************************)
\* Select(a, i) == v
SelectIs(a, i, v) == IF i \in DOMAIN a THEN a[i] = v ELSE TRUE

\* lines 32-39 and 76-82: the constraints on the opponents of one week
smt_opp_week(k, o) ==
    /\ \A t \in Teams(k) :
          /\ o[t] >= 0
          /\ o[t] < k
          /\ o[t] # t
          /\ SelectIs(o, o[t], t)
    /\ \A i \in Teams(k) : \A j \in Teams(k) :
          i # j => (o[i] = j => o[j] = i)

\* line 41: Select(home[w], t) == Not(Select(home[w], opp_t))
smt_home_week(k, o, h) ==
    \A t \in Teams(k) : SelectIs(h, o[t], ~h[t])

\* lines 43-44 and 70-73: the constraints on the periods of one week alone
smt_period_range(k, p) ==
    /\ \A t \in Teams(k) : p[t] >= 0 /\ p[t] < P(k)
    /\ \A q \in Periods(k) : CountIf(Teams(k), LAMBDA t : p[t] = q) = 2

\* lines 47-51: both teams of a match share the period
smt_period_week(k, o, p) ==
    /\ smt_period_range(k, p)
    /\ \A t \in Teams(k) : t < o[t] => SelectIs(p, o[t], p[t])

\* lines 54-59: Sum(meet_times) == 1
smt_meet_once(k, oo) ==
    \A i \in Teams(k) : \A j \in Teams(k) :
        i < j => CountIf(Weeks(k), LAMBDA w : oo[w][i] = j) = 1

\* lines 62-67: a plausible slip, the cap one too high
smt_period_cap_of_three(k, pp, ws) ==
    \A t \in Teams(k) : \A q \in Periods(k) :
        CountIf(ws, LAMBDA w : pp[w][t] = q) <= 3

\* lines 62-67: Sum(appearances) <= 2, over the weeks ws
smt_period_cap(k, pp, ws) ==
    \A t \in Teams(k) : \A q \in Periods(k) :
        CountIf(ws, LAMBDA w : pp[w][t] = q) <= 2

\* lines 85-88: Select(opp[w], 0) > Select(opp[w-1], 0), over the weeks ws
smt_week_order(oo, ws) ==
    \A w \in ws : w >= 1 => oo[w][0] > oo[w - 1][0]

\* STS_SMT_opt.py, line 104: a plausible slip, the team written 1-indexed
smt_opt_first_opp_one_indexed(o) == o[0] = 2

\* STS_SMT_opt.py, line 104: Select(opp[0], 0) == 1, o being opp[0]
smt_opt_first_opp(o) == o[0] = 1

\* a plausible slip: team 0 fixed away instead of at home
smt_opt_first_home_away(h) == h[0] = FALSE

\* STS_SMT_opt.py, line 105: Select(home[0], 0) == True, h being home[0]
smt_opt_first_home(h) == h[0] = TRUE

\* the sum of f over 0..(k - 1)
RECURSIVE SumTo(_, _)
SumTo(f, k) == IF k = 0 THEN 0 ELSE f[k - 1] + SumTo(f, k - 1)

\* STS_SMT_opt.py, lines 81-91: breaks[t] == Sum(team_breaks)
smt_opt_breaks(k, hh) ==
    [t \in Teams(k) |->
        CountIf(1..(W(k) - 1), LAMBDA w : hh[w - 1][t] = hh[w][t])]

\* STS_SMT_opt.py, lines 112-120: obj == Sum(breaks) and its two bounds
smt_opt_obj(k, hh) == SumTo(smt_opt_breaks(k, hh), k)
smt_opt_obj_bounds(k, hh) ==
    /\ \A t \in Teams(k) : smt_opt_breaks(k, hh)[t] >= 0
    /\ smt_opt_obj(k, hh) >= (IF k - 2 > 0 THEN k - 2 ELSE 0)
    /\ smt_opt_obj(k, hh) <= (k - 2) * (k - 1)

(***************************************************************************)
(* SAT model (SAT/STS_SAT_satisf.py, Sat_Model, lines 58-119).             *)
(* The matches of a week are the set of the pairs <<i, j>>, i < j, whose   *)
(* match_w_i_j is true (a variable match_w_i_j with i >= j occurs in no    *)
(* constraint and is never read); the periods of a week are an array       *)
(* t -> the set of the p whose period_w_t_p is true; the homes of a week   *)
(* are an array of Booleans.                                               *)
(***************************************************************************)
\* the encoders a Sat_Model is constructed with
Encodings == {"np", "he"}

\* the pairs i < j of teams
Pairs(k) == {q \in Teams(k) \X Teams(k) : q[1] < q[2]}

\* f"{i}" of a natural number: its decimal digits
Digits == <<"0", "1", "2", "3", "4", "5", "6", "7", "8", "9">>
RECURSIVE str(_)
str(i) == IF i < 10 THEN <<Digits[i + 1]>>
          ELSE str(i \div 10) \o <<Digits[(i % 10) + 1]>>

\* the names given to the exactly-one constraints (lines 71, 78, 83), as
\* the characters of the f-strings f"team_{t}_week_{w}", f"match_{i}_{j}"
\* and f"period_{w}_{t}"
team_week_name(t, w) ==
    <<"t", "e", "a", "m", "_">> \o str(t)
        \o <<"_", "w", "e", "e", "k", "_">> \o str(w)
match_name(i, j) ==
    <<"m", "a", "t", "c", "h", "_">> \o str(i) \o <<"_">> \o str(j)
period_name(w, t) ==
    <<"p", "e", "r", "i", "o", "d", "_">> \o str(w) \o <<"_">> \o str(t)

\* the names of the variables of a Sat_Model (lines 47, 50, 53):
\* f"match_{w}_{i}_{j}", f"home_{w}_{i}" and f"period_{w}_{i}_{p}"
match_var(w, i, j) ==
    <<"m", "a", "t", "c", "h", "_">> \o str(w) \o <<"_">> \o str(i)
        \o <<"_">> \o str(j)
home_var(w, i) == <<"h", "o", "m", "e", "_">> \o str(w) \o <<"_">> \o str(i)
period_var(w, i, p) ==
    <<"p", "e", "r", "i", "o", "d", "_">> \o str(w) \o <<"_">> \o str(i)
        \o <<"_">> \o str(p)

\* self.exactly_one(bool_vars, name=...) under the values xs of bool_vars
exactly_one(enc, xs, name) ==
    IF enc = "np" THEN exactly_one_np(xs) ELSE exactly_one_he(xs, name)

\* the exactly-one constraints of the models: encoder, number of literals
\* and name
ExactlyOneUses ==
    UNION {
        {<<enc, k - 1, team_week_name(t, w)>> :
            enc \in Encodings, t \in Teams(k), w \in Weeks(k)}
        \cup {<<enc, W(k), match_name(q[1], q[2])>> :
                enc \in Encodings, q \in Pairs(k)}
        \cup {<<enc, P(k), period_name(w, t)>> :
                enc \in Encodings, w \in Weeks(k), t \in Teams(k)}
        : k \in TeamCounts}

\* the values of the literals each of these constraints accepts
exactly_one_accepts ==
    Memo([u \in ExactlyOneUses |->
            Explicit({xs \in [1..u[2] -> BOOLEAN] : exactly_one(u[1], xs, u[3])})])

\* whether the constraint exactly_one(bool_vars, name) holds
exactly_one_holds(enc, xs, name) ==
    xs \in exactly_one_accepts[<<enc, Len(xs), name>>]

\* lines 64-70: the list `opponents` of team t, as the values of its literals
sat_opponents(k, t, m) ==
    [i \in 1..(k - 1) |->
        LET o == IF i - 1 < t THEN i - 1 ELSE i
        IN  IF t < o THEN <<t, o>> \in m ELSE <<o, t>> \in m]

\* lines 62-71: every team plays once in week w
sat_team_week(k, enc, w, m) ==
    \A t \in Teams(k) :
        exactly_one_holds(enc, sat_opponents(k, t, m), team_week_name(t, w))

\* lines 74-78: every pair meets once
sat_meet_once(k, enc, mm) ==
    \A q \in Pairs(k) :
        exactly_one_holds(enc, [w \in 1..W(k) |-> q \in mm[w - 1]],
                          match_name(q[1], q[2]))

\* lines 81-83: team t plays in exactly one period of week w
sat_period_row(k, enc, w, t, row) ==
    exactly_one_holds(enc, [q \in 1..P(k) |-> (q - 1) \in row],
                      period_name(w, t))

\* lines 86-89: count_teams == 2
sat_period_count(k, p) ==
    \A q \in Periods(k) : CountIf(Teams(k), LAMBDA t : q \in p[t]) = 2

\* lines 92-97: the two teams of a match share the period
sat_same_period(k, m, p) ==
    \A c \in Pairs(k) :
        c \in m => \A q \in Periods(k) : (q \in p[c[1]]) = (q \in p[c[2]])

\* lines 100-105: one team of a match is at home
sat_home_week(k, m, h) ==
    \A c \in Pairs(k) : c \in m => h[c[1]] # h[c[2]]

\* lines 108-111: count_teams_period <= 2, over the weeks ws
sat_period_cap(k, pp, ws) ==
    \A t \in Teams(k) : \A q \in Periods(k) :
        CountIf(ws, LAMBDA w : q \in pp[w][t]) <= 2

\* lines 117-118: Sum([If(matches[w][0][opp], opp, 0) for opp in range(1, n)])
sat_first_opp(k, m) ==
    SumTo([o \in Teams(k) |-> IF o >= 1 /\ <<0, o>> \in m THEN o ELSE 0], k)

\* add_symmetry, lines 114-119: curr_opp > prev_opp, over the weeks ws
sat_week_order(k, mm, ws) ==
    \A w \in ws : w >= 1 => sat_first_opp(k, mm[w]) > sat_first_opp(k, mm[w - 1])

(***************************************************************************)
(* MILP models (MILP/MILP_Satisfiability.py lines 43-92,                   *)
(* MILP/MILP_Satisfiability_SB.py lines 36-91 and                          *)
(* MILP/MILP_Optimization_SB.py lines 44-120).                             *)
(* The opponents of a week are an array t -> the set of the j with         *)
(* opp[w][t][j] = 1, the periods an array t -> the set of the p with       *)
(* period[w][t][p] = 1, the homes an array of the values 0 and 1.          *)
(***************************************************************************)
\* the value of a binary variable
Bin(b) == IF b THEN 1 ELSE 0

\* lpSum(x[i] for i in S) of binary variables, IsOne(i) telling x[i] = 1
lpSum(S, IsOne(_)) == Cardinality({i \in S : IsOne(i)})

\* lpSum(opp[w][t][j] for j in Teams if j != t) == 1; opp[w][t][t] == 0
mip_one_opponent(k, t, row) ==
    /\ lpSum(Teams(k) \ {t}, LAMBDA j : j \in row) = 1
    /\ Bin(t \in row) = 0

\* opp[w][i][j] == opp[w][j][i]
mip_mutual(k, o) ==
    \A i \in Teams(k) : \A j \in Teams(k) :
        i # j => Bin(j \in o[i]) = Bin(i \in o[j])

\* the teams with the rows opp[w][t] their constraint accepts
mip_one_opponent_accepts ==
    Memo([k \in TeamCounts |->
            Explicit({c \in Teams(k) \X SUBSET Teams(k) :
                         mip_one_opponent(k, c[1], c[2])})])

\* the constraints on the opponents of one week
mip_opp_week(k, o) ==
    /\ \A t \in Teams(k) : <<t, o[t]>> \in mip_one_opponent_accepts[k]
    /\ mip_mutual(k, o)

\* lpSum(opp[w][i][j] for w in Weeks) == 1
mip_meet_once(k, oo) ==
    \A c \in Pairs(k) :
        lpSum(Weeks(k), LAMBDA w : c[2] \in oo[w][c[1]]) = 1

\* lpSum(period[w][t][p] for p in Periods) == 1
mip_one_period(k, row) ==
    lpSum(Periods(k), LAMBDA q : q \in row) = 1

\* lpSum(period[w][t][p] for t in Teams) == 2, and every team in one period
mip_period_range(k, p) ==
    /\ \A t \in Teams(k) : mip_one_period(k, p[t])
    /\ \A q \in Periods(k) :
          lpSum(Teams(k), LAMBDA t : q \in p[t]) = 2

\* lpSum(period[w][t][p] for w in Weeks) <= 2, over the weeks ws
mip_period_cap(k, pp, ws) ==
    \A t \in Teams(k) : \A q \in Periods(k) :
        lpSum(ws, LAMBDA w : q \in pp[w][t]) <= 2

\* period[w][i][p] - period[w][j][p] <= 1 - opp[w][i][j], and the converse
mip_same_period(k, o, p) ==
    \A i \in Teams(k) : \A j \in Teams(k) :
        i # j =>
            \A q \in Periods(k) :
                /\ Bin(q \in p[i]) - Bin(q \in p[j]) <= 1 - Bin(j \in o[i])
                /\ Bin(q \in p[j]) - Bin(q \in p[i]) <= 1 - Bin(j \in o[i])

\* a plausible slip: the second inequality left out, so that both teams of
\* a match can be away
mip_home_week_at_most_one(k, o, h) ==
    \A c \in Pairs(k) :
        h[c[1]] + h[c[2]] <= 1 + (1 - Bin(c[2] \in o[c[1]])) * 2

\* home[w][i] + home[w][j] <= 1 + (1 - opp[w][i][j]) * 2, and >= 1 - ...
mip_home_week(k, o, h) ==
    \A c \in Pairs(k) :
        /\ h[c[1]] + h[c[2]] <= 1 + (1 - Bin(c[2] \in o[c[1]])) * 2
        /\ h[c[1]] + h[c[2]] >= 1 - (1 - Bin(c[2] \in o[c[1]])) * 2

\* a plausible slip: the sum taken over the opponents from j on, which
\* orders the opponents of team 0 downwards
mip_week_order_descending(k, oo, ws) ==
    \A w \in ws :
        w >= 1 =>
            \A j \in 1..(k - 1) :
                lpSum(j..(k - 1), LAMBDA x : x \in oo[w - 1][0])
                    >= Bin(j \in oo[w][0])

\* lpSum(opp[w][0][x] for x in range(j + 1)) >= opp[w + 1][0][j], over the
\* weeks ws
mip_week_order(k, oo, ws) ==
    \A w \in ws :
        w >= 1 =>
            \A j \in 1..(k - 1) :
                lpSum(0..j, LAMBDA x : x \in oo[w - 1][0])
                    >= Bin(j \in oo[w][0])

\* MILP_Optimization_SB.py, lines 100-105: the first match is fixed, o, h
\* and p being opp[0], home[0] and period[0]
mip_opt_first_opp(o) == Bin(1 \in o[0]) = 1
mip_opt_first_home(h) == h[0] = 1 /\ h[1] = 0
mip_opt_first_period(p) == Bin(0 \in p[0]) = 1 /\ Bin(0 \in p[1]) = 1

\* MILP_Optimization_SB.py, lines 108-111: the binaries breaks[w][t] that
\* the two inequalities force to 1
mip_opt_forced_breaks(k, hh) ==
    Cardinality({c \in (0..(W(k) - 2)) \X Teams(k) :
                    \/ hh[c[1]][c[2]] + hh[c[1] + 1][c[2]] - 1 > 0
                    \/ 1 - hh[c[1]][c[2]] - hh[c[1] + 1][c[2]] > 0})

\* MILP_Optimization_SB.py, lines 117-120: some values of the binaries
\* breaks[w][t] meet the two bounds on their sum
mip_opt_break_bounds(k, hh) ==
    \E total \in mip_opt_forced_breaks(k, hh)..((W(k) - 1) * k) :
        total >= k - 2 /\ total <= (k - 1) * (k - 2)

(***************************************************************************)
(* OptimalityCertifier: common definitions.                                *)
(*                                                                         *)
(* A duration measured with time.time() is a number of milliseconds; the   *)
(* "time" of a persisted record is a number of whole seconds.  An optional *)
(* value is None or Some(v).                                               *)
(***************************************************************************)
None == <<>>
Some(v) == <<v>>

\* seconds as milliseconds
Seconds(s) == s * 1000

\* Python's round(x) of x seconds: to the nearest integer, ties to even
Round(ms) ==
    LET q == ms \div 1000
        r == ms % 1000
    IN  IF r < 500 THEN q
        ELSE IF r > 500 THEN q + 1
        ELSE IF q % 2 = 0 THEN q ELSE q + 1

Min(a, b) == IF a < b THEN a ELSE b

\* the theoretical minimum of the breaks: optimal_obj = n - 2
optimal_objective(k) == k - 2

\* a complete schedule of 2 teams and one of 6 teams, periods x weeks, each
\* cell <<home, away>>, teams 1-indexed
ExampleSol2 == {<< << <<1, 2>> >> >>, << << <<2, 1>> >> >>}
ExampleSol6 ==
    {<< << <<1, 2>>, <<3, 1>>, <<6, 2>>, <<3, 6>>, <<5, 4>> >>,
        << <<4, 3>>, <<2, 5>>, <<5, 3>>, <<4, 2>>, <<6, 1>> >>,
        << <<6, 5>>, <<4, 6>>, <<1, 4>>, <<1, 5>>, <<2, 3>> >> >>,
     << << <<1, 2>>, <<3, 1>>, <<6, 2>>, <<3, 6>>, <<4, 5>> >>,
        << <<4, 3>>, <<2, 5>>, <<5, 3>>, <<4, 2>>, <<6, 1>> >>,
        << <<6, 5>>, <<4, 6>>, <<1, 4>>, <<1, 5>>, <<2, 3>> >> >>}

\* the complete schedules the runs are given for k teams (none for 4 teams:
\* the model of 4 teams has no solution)
ExampleSols(k) == IF k = 2 THEN ExampleSol2 ELSE IF k = 6 THEN ExampleSol6 ELSE {}

\* the team counts of the runs
RunTeamCounts == {k \in TeamCounts : k = 4 \/ ExampleSols(k) # {}}

\* calculate_breaks (MILP/mip_docker_utils.py, lines 76-100): hh[w][t] is
\* the value of the variable home[w][t]
calculate_breaks(k, hh) ==
    LET cur(w, t) == 2 * hh[w][t] > 1
        team_breaks == [t \in Teams(k) |->
                      Cardinality({w \in 1..(W(k) - 1) : cur(w - 1, t) = cur(w, t)})]
    IN  SumTo(team_breaks, k)

\* the values of the home variables of a complete periods x weeks matrix
HomeOf(k, sol) ==
    [w \in Weeks(k) |->
        [t \in Teams(k) |->
            IF \E q \in 1..P(k) : sol[q][w + 1][1] = t + 1 THEN 1 ELSE 0]]

\* the breaks of a complete periods x weeks matrix
BreaksOf(k, sol) == calculate_breaks(k, HomeOf(k, sol))

(***************************************************************************)
(* CP: parse_minizinc_output (CP/cp_docker_utils.py, lines 52-171).        *)
(*                                                                         *)
(* The output is a sequence of lines.  A line is a record whose field k    *)
(* tells which patterns of the parser the text of the line matches:        *)
(*   "text"    free text, the sequence of its characters in field chars    *)
(*   "period"  "Period p: a v b  c v d ..." with the matches in field m    *)
(*   "matches" "a v b ..." with no "Period" in front                       *)
(*   "obj"     an objective line, in the form of field form, value v       *)
(*   "marker"  a line of dashes or of equal signs, field text              *)
(*   "ms"      "... <v> ms"                                                *)
(***************************************************************************)
TextLine(chars) == [k |-> "text", chars |-> chars]
PeriodLine(m) == [k |-> "period", m |-> m]
ObjLine(f, v) == [k |-> "obj", form |-> f, v |-> v]
MarkerLine(t) == [k |-> "marker", text |-> t]
MsLine(v) == [k |-> "ms", v |-> v]
MatchesLine(m) == [k |-> "matches", m |-> m]

\* the forms of an objective line, and the ones re.search(r'obj\s*=\s*(\d+)')
\* matches.  "obj = ?" is an objective line with no digits.
ObjForms == {"obj = N", "objective: N", "Total breaks: N", "% Objective N", "obj = ?"}

\* the letters of the texts, lower case and upper case
LowerLetters == <<"a", "b", "e", "f", "i", "k", "l", "n", "o", "s", "t", "u", "w">>
UpperLetters == <<"A", "B", "E", "F", "I", "K", "L", "N", "O", "S", "T", "U", "W">>

\* str.upper() and str.lower(), character by character
upper_char(c) ==
    IF \E i \in 1..Len(LowerLetters) : LowerLetters[i] = c
    THEN UpperLetters[CHOOSE i \in 1..Len(LowerLetters) : LowerLetters[i] = c]
    ELSE c
lower_char(c) ==
    IF \E i \in 1..Len(UpperLetters) : UpperLetters[i] = c
    THEN LowerLetters[CHOOSE i \in 1..Len(UpperLetters) : UpperLetters[i] = c]
    ELSE c
upper(chars) == [i \in 1..Len(chars) |-> upper_char(chars[i])]
lower(chars) == [i \in 1..Len(chars) |-> lower_char(chars[i])]

\* word in chars
contains(chars, word) ==
    \E a \in 0..(Len(chars) - Len(word)) :
        \A i \in 1..Len(word) : chars[a + i] = word[i]

UNSATISFIABLE == <<"U", "N", "S", "A", "T", "I", "S", "F", "I", "A", "B", "L", "E">>
unsatisfiable == <<"u", "n", "s", "a", "t", "i", "s", "f", "i", "a", "b", "l", "e">>

\* a plausible slip of line 74: the word is looked for as it is written
has_unsatisfiable_case_sensitive(output) ==
    \E i \in 1..Len(output) :
        output[i].k = "text" /\ contains(output[i].chars, UNSATISFIABLE)

\* line 74: "UNSATISFIABLE" in output.upper() or "unsatisfiable" in
\* output.lower()
has_unsatisfiable(output) ==
    \E i \in 1..Len(output) :
        output[i].k = "text"
            /\ (contains(upper(output[i].chars), UNSATISFIABLE)
                    \/ contains(lower(output[i].chars), unsatisfiable))

\* lines 79-86: the Period lines whose regex finds matches
RECURSIVE period_lines(_)
period_lines(output) ==
    IF output = <<>> THEN <<>>
    ELSE LET line == Head(output)
         IN  IF line.k = "period" /\ line.m # <<>>
             THEN <<line.m>> \o period_lines(Tail(output))
             ELSE period_lines(Tail(output))

\* a plausible slip of line 124: a line of matches is taken although no
\* Period line opened a period
RECURSIVE solution_lines_guessing(_, _)
solution_lines_guessing(output, current_period) ==
    IF output = <<>>
    THEN IF current_period # <<>> THEN <<current_period>> ELSE <<>>
    ELSE LET line == Head(output)
         IN  IF line.k = "period"
             THEN (IF current_period # <<>> THEN <<current_period>> ELSE <<>>)
                  \o solution_lines_guessing(Tail(output), line.m)
             ELSE IF line.k = "matches"
             THEN solution_lines_guessing(Tail(output), current_period \o line.m)
             ELSE solution_lines_guessing(Tail(output), current_period)

\* lines 111-133: the second pass, made when the first found nothing; a
\* Period line starts a new current_period, a line of matches extends it
RECURSIVE solution_lines(_, _)
solution_lines(output, current_period) ==
    IF output = <<>>
    THEN IF current_period # <<>> THEN <<current_period>> ELSE <<>>
    ELSE LET line == Head(output)
         IN  IF line.k = "period"
             THEN (IF current_period # <<>> THEN <<current_period>> ELSE <<>>)
                  \o solution_lines(Tail(output), line.m)
             ELSE IF current_period # <<>> /\ line.k = "matches"
             THEN solution_lines(Tail(output), current_period \o line.m)
             ELSE solution_lines(Tail(output), current_period)

\* lines 88-133: result["sol"]
parsed_sol(output) ==
    IF period_lines(output) # <<>>
    THEN period_lines(output)
    ELSE solution_lines(output, <<>>)

\* a plausible slip of line 136: only the line of equal signs counts
has_optimality_marker_proof_only(output) ==
    \E i \in 1..Len(output) :
        output[i].k = "marker" /\ output[i].text \in {"=========="}

\* line 136
has_optimality_marker(output) ==
    \E i \in 1..Len(output) :
        output[i].k = "marker" /\ output[i].text \in {"==========", "----------"}

\* the value of the first line of the output in one of the forms, or None
RECURSIVE first_obj(_, _)
first_obj(output, forms) ==
    IF output = <<>> THEN None
    ELSE IF Head(output).k = "obj" /\ Head(output).form \in forms
    THEN Some(Head(output).v)
    ELSE first_obj(Tail(output), forms)

\* the value of the last line of the output in one of the forms, or None
RECURSIVE last_obj(_, _)
last_obj(output, forms) ==
    IF output = <<>> THEN None
    ELSE LET line == output[Len(output)]
         IN  IF line.k = "obj" /\ line.form \in forms
             THEN Some(line.v)
             ELSE last_obj(SubSeq(output, 1, Len(output) - 1), forms)

\* lines 139-154: result["obj"]
parsed_obj(output, is_optimization) ==
    IF first_obj(output, {"obj = N"}) # None
    THEN first_obj(output, {"obj = N"})
    ELSE IF ~is_optimization THEN None
    ELSE IF first_obj(output, {"objective: N"}) # None
    THEN first_obj(output, {"objective: N"})
    ELSE IF first_obj(output, {"Total breaks: N"}) # None
    THEN first_obj(output, {"Total breaks: N"})
    ELSE last_obj(output, {"% Objective N", "objective: N"})

\* lines 167-169: result["time"], in milliseconds
RECURSIVE parsed_time(_)
parsed_time(output) ==
    IF output = <<>> THEN 0
    ELSE IF Head(output).k = "ms" THEN Head(output).v
    ELSE parsed_time(Tail(output))

\* lines 157-164: result["optimal"] (the callers always pass n)
parsed_optimal(output, is_optimization, k) ==
    LET obj == parsed_obj(output, is_optimization)
    IN  IF is_optimization /\ obj # None
        THEN has_optimality_marker(output) /\ obj[1] = optimal_objective(k)
        ELSE IF has_optimality_marker(output) THEN TRUE
        ELSE FALSE

\* parse_minizinc_output
parse_minizinc_output(output, is_optimization, k) ==
    IF has_unsatisfiable(output)
    THEN [time |-> 0, optimal |-> TRUE, obj |-> None, sol |-> <<>>]
    ELSE [time    |-> parsed_time(output),
          optimal |-> parsed_optimal(output, is_optimization, k),
          obj     |-> parsed_obj(output, is_optimization),
          sol     |-> parsed_sol(output)]


(***************************************************************************)
(* SAT and SMT: the result of the model function and the persisted record. *)
(*                                                                         *)
(* A schedule of the model functions is a sequence of weeks, each the      *)
(* sequence of its matches [home_team, away_team, period], 0-indexed.      *)
(***************************************************************************)
\* the time from which a result with no schedule is taken for a timeout
TimeoutTolerance == 299
\* the "time" of the record of a timeout
TimeoutRecordTime == 300
\* below this many seconds a run with no schedule is taken for a proof
QuickSolveSeconds == 1

\* the schedule, in the form of the model functions, of a periods x weeks
\* matrix of the examples
WeeksOf(k, sol) ==
    [w \in 1..W(k) |->
        [q \in 1..P(k) |->
            [home_team |-> sol[q][w][1] - 1,
             away_team |-> sol[q][w][2] - 1,
             period    |-> q - 1]]]

\* the schedules a solver can return for k teams
ExampleSchedules(k) == {WeeksOf(k, sol) : sol \in ExampleSols(k)}

\* Sat_Model.solve, lines 132-174: the check answered `check` after t ms
sat_solve(check, t, sched) ==
    IF check = "sat"
    THEN [time |-> t, feasible |-> TRUE, schedule |-> Some(sched)]
    ELSE [time |-> t, feasible |-> FALSE, schedule |-> None]

\* a plausible slip: the teams of a cell left 0-indexed
sat_sol_cell_zero_indexed(week_data, q) ==
    LET hits == {i \in 1..Len(week_data) : week_data[i].period = q}
    IN  IF hits = {} THEN None
        ELSE LET last == CHOOSE i \in hits : \A j \in hits : j <= i
             IN  <<week_data[last].home_team, week_data[last].away_team>>

\* the cell sol[q][w] after the loop of lines 228-234: the last match of
\* week w whose period is q, or None
sat_sol_cell(week_data, q) ==
    LET hits == {i \in 1..Len(week_data) : week_data[i].period = q}
    IN  IF hits = {} THEN None
        ELSE LET last == CHOOSE i \in hits : \A j \in hits : j <= i
             IN  <<week_data[last].home_team + 1, week_data[last].away_team + 1>>

\* SAT save_solution_to_json, lines 222-234: the periods x weeks matrix
sat_sol(k, sched) ==
    [q \in 1..P(k) |-> [w \in 1..W(k) |-> sat_sol_cell(sched[w], q - 1)]]

\* SAT save_solution_to_json, lines 219-259: the record of one result
sat_save_solution(k, result_data) ==
    IF result_data.feasible
    THEN [time    |-> Round(result_data.time),
          optimal |-> TRUE,
          obj     |-> None,
          sol     |-> sat_sol(k, result_data.schedule[1])]
    ELSE IF result_data.time >= Seconds(TimeoutTolerance)
    THEN [time |-> TimeoutRecordTime, optimal |-> FALSE,
          obj |-> None, sol |-> <<>>]
    ELSE [time |-> Round(result_data.time), optimal |-> TRUE,
          obj |-> None, sol |-> <<>>]

\* model_satisfiable, lines 104-199: the check answered `check`, end -
\* start_timestamp is t ms
smt_model_satisfiable(check, t, timeout, sched) ==
    LET time == IF t >= Seconds(timeout) THEN Seconds(timeout) ELSE t
    IN  IF check = "sat"
        THEN [time |-> time, feasible |-> TRUE, schedule |-> Some(sched)]
        ELSE [time |-> time, feasible |-> FALSE, schedule |-> None]

\* convert_schedule_to_periods: periods[period].append([home, away])
RECURSIVE matches_in_period(_, _)
matches_in_period(week_data, q) ==
    IF week_data = <<>> THEN <<>>
    ELSE (IF Head(week_data).period = q
          THEN << <<Head(week_data).home_team + 1, Head(week_data).away_team + 1>> >>
          ELSE <<>>)
         \o matches_in_period(Tail(week_data), q)

RECURSIVE period_row(_, _)
period_row(weeks, q) ==
    IF weeks = <<>> THEN <<>>
    ELSE matches_in_period(Head(weeks), q) \o period_row(Tail(weeks), q)

convert_schedule_to_periods(k, sched) ==
    [q \in 1..P(k) |-> period_row(sched, q - 1)]

\* SMT save_solution_to_json, lines 59-85: the record of a satisfiability
\* result
smt_save_satisf(k, result_data) ==
    IF result_data.feasible
    THEN [time    |-> Round(result_data.time),
          optimal |-> TRUE,
          obj     |-> None,
          sol     |-> convert_schedule_to_periods(k, result_data.schedule[1])]
    ELSE IF result_data.time >= Seconds(TimeoutTolerance)
    THEN [time |-> TimeoutRecordTime, optimal |-> FALSE,
          obj |-> None, sol |-> <<>>]
    ELSE [time |-> Round(result_data.time), optimal |-> TRUE,
          obj |-> None, sol |-> <<>>]

\* model_optimized, lines 167-308: the result after the loop; `begin` is
\* start - start_timestamp, `finish` is end - start_timestamp
smt_model_optimized(best_obj, best_model, begin, finish, timeout) ==
    IF best_obj # None
    THEN [time     |-> finish,
          optimal  |-> (finish - begin) < Seconds(timeout),
          obj      |-> best_obj,
          schedule |-> best_model]
    ELSE [time |-> finish, optimal |-> FALSE, obj |-> None, schedule |-> None]

\* SMT save_solution_to_json, lines 22-58: the record of an optimization
\* result
smt_save_opt(k, result_data) ==
    IF result_data.schedule # None /\ result_data.obj # None
    THEN [time    |-> Round(result_data.time),
          optimal |-> result_data.optimal
                         /\ result_data.obj[1] = optimal_objective(k),
          obj     |-> result_data.obj,
          sol     |-> convert_schedule_to_periods(k, result_data.schedule[1])]
    ELSE IF result_data.time >= Seconds(TimeoutTolerance)
    THEN [time |-> TimeoutRecordTime, optimal |-> FALSE,
          obj |-> None, sol |-> <<>>]
    ELSE IF result_data.time < Seconds(QuickSolveSeconds)
    THEN [time |-> 0, optimal |-> TRUE, obj |-> None, sol |-> <<>>]
    ELSE [time |-> Round(result_data.time), optimal |-> FALSE,
          obj |-> None, sol |-> <<>>]

(***************************************************************************)
(* MILP: solve_instance (MILP/mip_model.py, lines 15-124).                 *)
(***************************************************************************)
\* lines 53-54
has_solution(lp_status, any_value) ==
    lp_status \in {"Optimal"}
        \/ (lp_status \in {"Not Solved", "Undefined"} /\ any_value)

\* lines 60-63: no cell of the matrix is None
is_complete_solution(sol) ==
    \A q \in 1..Len(sol) : \A w \in 1..Len(sol[q]) : sol[q][w] # None

\* solve_instance, lines 49-112: the status of the model, whether a variable
\* has a value, the extracted matrix, the breaks computed from the home
\* variables, and solve_time in ms
mip_solve_instance(k, is_optimization, time_limit, lp_status, any_value, sol, solve_time) ==
    IF has_solution(lp_status, any_value)
    THEN IF ~is_complete_solution(sol)
         THEN [time |-> Min(Round(solve_time), time_limit), optimal |-> FALSE,
               obj |-> None, sol |-> <<>>]
         ELSE IF is_optimization
         THEN [time    |-> Min(Round(solve_time), time_limit),
               optimal |-> lp_status = "Optimal"
                              /\ calculate_breaks(k, HomeOf(k, sol)) = optimal_objective(k),
               obj     |-> Some(calculate_breaks(k, HomeOf(k, sol))),
               sol     |-> sol]
         ELSE [time    |-> Min(Round(solve_time), time_limit),
               optimal |-> lp_status = "Optimal",
               obj     |-> None,
               sol     |-> sol]
    ELSE IF solve_time < Seconds(QuickSolveSeconds)
    THEN [time |-> Round(solve_time), optimal |-> TRUE, obj |-> None, sol |-> <<>>]
    ELSE [time |-> Min(Round(solve_time), time_limit), optimal |-> FALSE,
          obj |-> None, sol |-> <<>>]

\* solve_instance, lines 116-124: the handler of an exception raised
\* solve_time ms after start_time
mip_solve_exception(solve_time) ==
    [time |-> Round(solve_time), optimal |-> FALSE, obj |-> None, sol |-> <<>>]

\* the scheduling part of the state while the encoders alone run
SchedIdle ==
    /\ n = 0
    /\ kind = "none"
    /\ symmetry = FALSE
    /\ opp = <<>>
    /\ period = <<>>
    /\ home = <<>>
    /\ models = {}
    /\ status = "idle"
    /\ schedule = <<>>
    /\ sol_matrix = <<>>
    /\ total_breaks = -1
    /\ breaks = <<>>
    /\ accepts = <<>>

\* the certifier's part of the state while no pipeline runs
CertIdle ==
    /\ pipeline = "none"
    /\ input = <<>>
    /\ pc = "idle"
    /\ loop = <<>>
    /\ result = None
    /\ record = None

\* the result store's part of the state while no save and no batch runs
StoreIdle ==
    /\ store = <<>>
    /\ first_store = <<>>
    /\ saves = <<>>
    /\ savers = <<>>
    /\ batch = <<>>
    /\ call = <<>>

(***************************************************************************)
(* The runs of the four pipelines.                                         *)
(***************************************************************************)
\* the encoders' part of the state while they do not run
CardIdle ==
    /\ bool_vals = <<>>
    /\ np_accepts = "unset"
    /\ he_accepts = "unset"
    /\ sat_model = <<>>

\* the configured time limits, in seconds
TimeLimits == {60, 300, 600}

\* the durations a solve can take, in ms
SolveTimes ==
    {0, 400, 1500, 2500, 60000, 60600, 298600, 299000, 300000, 300600,
     600000, 600600}

\* the slack of a solver over its time limit, in ms
SolverSlack == 600

\* the durations of a solve that ended with an answer under a time limit
AnswerTimes(time_limit) ==
    {t \in SolveTimes : t <= Seconds(time_limit) + SolverSlack}

\* the durations of a solve the time limit ended
TimeoutTimes(time_limit) ==
    {t \in SolveTimes : t >= Seconds(time_limit)
                          /\ t <= Seconds(time_limit) + SolverSlack}

\* what a z3 check of the model of k teams can do: answer sat with a model,
\* answer unsat (the model of 4 teams has no solution), answer unknown when
\* the time limit ends it, or raise
Z3Runs(k, time_limit) ==
    [check : {"sat"}, t : AnswerTimes(time_limit),
     schedule : ExampleSchedules(k)]
    \cup [check : IF k = 4 THEN {"unsat"} ELSE {}, t : AnswerTimes(time_limit),
          schedule : {<<>>}]
    \cup [check : {"unknown"}, t : TimeoutTimes(time_limit), schedule : {<<>>}]
    \cup [check : {"raise"}, t : {400}, schedule : {<<>>}]

\* the texts of the logs
UnsatTexts ==
    {<<"=", "=", "=", "=", "=">> \o UNSATISFIABLE \o <<"=", "=", "=", "=", "=">>,
     unsatisfiable,
     <<"U">> \o Tail(unsatisfiable)}
OtherTexts ==
    {<<"=", "=", "=", "=", "=", "U", "N", "K", "N", "O", "W", "N",
       "=", "=", "=", "=", "=">>,
     <<"U", "N", "S", "A", "T">>}

\* the blocks a log is made of
PeriodBlocks(k) ==
    {<<>>, <<PeriodLine(<<>>)>>}
        \cup {[q \in 1..P(k) |-> PeriodLine(sol[q])] : sol \in ExampleSols(k)}
ObjBlocks(k) ==
    {<<>>} \cup {<<ObjLine(f, v)>> :
                    f \in ObjForms,
                    v \in {optimal_objective(k), optimal_objective(k) + 1}}
MarkerBlocks ==
    {<<>>, <<MarkerLine("----------")>>,
     <<MarkerLine("----------"), MarkerLine("==========")>>}
TextBlocks == {<<>>} \cup {<<TextLine(c)>> : c \in UnsatTexts \cup OtherTexts}
MsBlocks == {<<>>, <<MsLine(412)>>}

\* the logs of a run of k teams
Outputs(k) ==
    {a \o b \o c \o d \o e :
        a \in PeriodBlocks(k), b \in ObjBlocks(k), c \in MarkerBlocks,
        d \in TextBlocks, e \in MsBlocks}

\* the arguments and the course of a CP run: the log, whether the subprocess
\* ran into its timeout, whether it raised another exception, and the
\* measured execution_time in ms
CpInputs ==
    UNION {[n : {k}, is_optimization : BOOLEAN, time_limit : {300},
            output : Outputs(k), expired : BOOLEAN, raised : {FALSE},
            execution_time : {400, 304600, 305600}]
           \cup [n : {k}, is_optimization : BOOLEAN, time_limit : {300},
                 output : {<<>>}, expired : {FALSE}, raised : {TRUE},
                 execution_time : {400}] : k \in RunTeamCounts}

\* the arguments and the course of a SAT or an SMT satisfiability run
Z3Inputs ==
    UNION {[n : {k}, time_limit : {tl}, run : Z3Runs(k, tl)] :
              k \in RunTeamCounts, tl \in TimeLimits}

\* the arguments of an SMT optimization run; begin is the time the model
\* building takes, in ms
SmtOptInputs ==
    [n : RunTeamCounts, time_limit : TimeLimits, begin : {400, 1500}]

\* the durations of one check of the improvement loop, in ms
CheckTimes == {400, 1500, 149000}

\* a periods x weeks matrix with no cell filled, and with one cell not filled
EmptySol(k) == [q \in 1..P(k) |-> [w \in 1..W(k) |-> None]]
PartialSols(k) ==
    {[sol EXCEPT ![P(k)][W(k)] = None] : sol \in ExampleSols(k)}

\* what a MILP solve of the model of k teams can end with: the status, whether
\* a variable has a value, and the matrix extract_schedule_from_solution
\* builds from the values; or an exception raised inside the try
MipRuns(k) ==
    [lp_status : {"Optimal"}, any_value : {TRUE}, sol : ExampleSols(k)]
    \cup [lp_status : IF k = 4 THEN {"Infeasible"} ELSE {},
          any_value : BOOLEAN, sol : {EmptySol(k)}]
    \cup [lp_status : {"Not Solved", "Undefined"}, any_value : {TRUE},
          sol : ExampleSols(k) \cup PartialSols(k)]
    \cup [lp_status : {"Not Solved", "Undefined"}, any_value : {FALSE},
          sol : {EmptySol(k)}]
    \cup [lp_status : {"raise"}, any_value : {FALSE}, sol : {EmptySol(k)}]

\* the arguments and the course of a MILP run
MipInputs ==
    UNION {[n : {k}, is_optimization : BOOLEAN, time_limit : {tl},
            run : MipRuns(k), solve_time : AnswerTimes(tl)] :
              k \in RunTeamCounts, tl \in TimeLimits}

InitCert ==
    /\ CardIdle
    /\ SchedIdle
    /\ StoreIdle
    /\ \/ pipeline = "cp" /\ input \in CpInputs
       \/ pipeline \in {"sat", "smt"} /\ input \in Z3Inputs
       \/ pipeline = "smt_opt" /\ input \in SmtOptInputs
       \/ pipeline = "mip" /\ input \in MipInputs
    /\ pc = "start"
    /\ loop = <<>>
    /\ result = None
    /\ record = None

\* the seconds added to the time limit for the subprocess timeout and for
\* the safeguard on the recorded time
TimeBuffer == 5

\* parse_minizinc_output on the log of the run
CpParse ==
    /\ pipeline = "cp" /\ pc = "start"
    /\ ~input.raised
    /\ result' = Some(parse_minizinc_output(input.output, input.is_optimization,
                                            input.n))
    /\ pc' = "parsed"
    /\ UNCHANGED <<pipeline, input, loop, record, cardVars, schedVars, storeVars>>

\* run_minizinc_model_direct after the parse (lines 222-248): the result
\* it returns, its time in ms
cp_run_result(parsed, expired, execution_time, time_limit) ==
    IF expired
    THEN [parsed EXCEPT !.time = Seconds(time_limit), !.optimal = FALSE]
    ELSE IF parsed.time = 0
    THEN [parsed EXCEPT !.time = Seconds(Round(execution_time))]
    ELSE parsed

\* run_minizinc_model_direct after the parse, then the safeguard of
\* solve_instance_direct (CP_STS.py, lines 160-165); the times of this
\* record are in ms
CpReturn ==
    /\ pipeline = "cp" /\ pc = "parsed"
    /\ LET ran == cp_run_result(result[1], input.expired,
                                input.execution_time, input.time_limit)
       IN  record' = Some(IF ran.time > Seconds(input.time_limit + TimeBuffer)
                          THEN [ran EXCEPT !.time = Seconds(input.time_limit),
                                           !.optimal = FALSE]
                          ELSE ran)
    /\ pc' = "saved"
    /\ UNCHANGED <<pipeline, input, loop, result, cardVars, schedVars, storeVars>>

\* run_minizinc_model_direct, lines 249-256: the handler of an exception
\* other than the timeout of the subprocess
cp_run_exception ==
    [time |-> 0, optimal |-> FALSE, obj |-> None, sol |-> <<>>]

\* run_minizinc_model_direct raised inside its try; the safeguard of
\* solve_instance_direct leaves the returned time 0.0
CpRaise ==
    /\ pipeline = "cp" /\ pc = "start"
    /\ input.raised
    /\ record' = Some(cp_run_exception)
    /\ pc' = "saved"
    /\ UNCHANGED <<pipeline, input, loop, result, cardVars, schedVars, storeVars>>

\* model_satisfiable_sat: Sat_Model.solve, or the handler of line 193
SatSolve ==
    /\ pipeline = "sat" /\ pc = "start"
    /\ result' = Some(IF input.run.check = "raise"
                      THEN [time |-> Seconds(input.time_limit),
                            feasible |-> FALSE, schedule |-> None]
                      ELSE sat_solve(input.run.check, input.run.t,
                                     input.run.schedule))
    /\ pc' = "returned"
    /\ UNCHANGED <<pipeline, input, loop, record, cardVars, schedVars, storeVars>>

\* SAT save_solution_to_json
SatSave ==
    /\ pipeline = "sat" /\ pc = "returned"
    /\ record' = Some(sat_save_solution(input.n, result[1]))
    /\ pc' = "saved"
    /\ UNCHANGED <<pipeline, input, loop, result, cardVars, schedVars, storeVars>>

\* model_satisfiable, or its handler of line 201
SmtSolve ==
    /\ pipeline = "smt" /\ pc = "start"
    /\ result' = Some(IF input.run.check = "raise"
                      THEN [time |-> Seconds(input.time_limit),
                            feasible |-> FALSE, schedule |-> None]
                      ELSE smt_model_satisfiable(input.run.check, input.run.t,
                                                 input.time_limit,
                                                 input.run.schedule))
    /\ pc' = "returned"
    /\ UNCHANGED <<pipeline, input, loop, record, cardVars, schedVars, storeVars>>

\* SMT save_solution_to_json, key smt_satisf
SmtSave ==
    /\ pipeline = "smt" /\ pc = "returned"
    /\ record' = Some(smt_save_satisf(input.n, result[1]))
    /\ pc' = "saved"
    /\ UNCHANGED <<pipeline, input, loop, result, cardVars, schedVars, storeVars>>

\* model_optimized, lines 122-128: the locals before the loop; now is
\* time.time() - start_timestamp in ms, bound the x of the last obj < x added
SmtOptStart ==
    /\ pipeline = "smt_opt" /\ pc = "start"
    /\ loop' = [iteration |-> 0, best_obj |-> None, best_model |-> None,
                now |-> input.begin, bound |-> None, result_check |-> "none"]
    /\ pc' = "loop"
    /\ UNCHANGED <<pipeline, input, result, record, cardVars, schedVars, storeVars>>

\* whether the constraints with obj < bound have a solution: the models of 2
\* and of 6 teams have solutions of n - 2 breaks and none of fewer, the model
\* of 4 teams has none
HasBetter(k, bound) ==
    /\ ExampleSols(k) # {}
    /\ bound # None => bound[1] > optimal_objective(k)

\* model_optimized, lines 130-165: one iteration of the loop.  The check
\* answers sat with a model of fewer breaks than the bound, or unsat when
\* there is none, or unknown when the time left ends it.
SmtOptCheck ==
    /\ pipeline = "smt_opt" /\ pc = "loop"
    /\ loop.now < Seconds(input.time_limit)
    /\ LET remaining == Seconds(input.time_limit) - loop.now
       IN  \/ \E d \in CheckTimes \cup {remaining} :
                \E sol \in ExampleSols(input.n) :
                  LET current_obj == BreaksOf(input.n, sol)
                  IN  /\ d <= remaining
                      /\ loop.bound # None => current_obj < loop.bound[1]
                      /\ loop' = [iteration |-> loop.iteration + 1,
                                  best_obj |->
                                     IF loop.best_obj = None
                                           \/ current_obj < loop.best_obj[1]
                                     THEN Some(current_obj) ELSE loop.best_obj,
                                  best_model |->
                                     IF loop.best_obj = None
                                           \/ current_obj < loop.best_obj[1]
                                     THEN Some(WeeksOf(input.n, sol))
                                     ELSE loop.best_model,
                                  now |-> loop.now + d,
                                  bound |-> Some(current_obj),
                                  result_check |-> "sat"]
                      /\ pc' = "loop"
           \/ \E d \in CheckTimes :
                /\ d <= remaining
                /\ ~HasBetter(input.n, loop.bound)
                /\ loop' = [loop EXCEPT !.iteration = @ + 1, !.now = @ + d,
                                        !.result_check = "unsat"]
                /\ pc' = "after_loop"
           \/ \E over \in {0, SolverSlack} :
                /\ loop' = [loop EXCEPT !.iteration = @ + 1,
                                        !.now = Seconds(input.time_limit) + over,
                                        !.result_check = "unknown"]
                /\ pc' = "after_loop"
    /\ UNCHANGED <<pipeline, input, result, record, cardVars, schedVars, storeVars>>

\* model_optimized, lines 310-317: the handler of an exception raised in the
\* loop
SmtOptRaise ==
    /\ pipeline = "smt_opt" /\ pc = "loop"
    /\ loop' = [loop EXCEPT !.result_check = "raise"]
    /\ result' = Some([time |-> Seconds(input.time_limit), optimal |-> FALSE,
                       obj |-> None, schedule |-> None])
    /\ pc' = "returned"
    /\ UNCHANGED <<pipeline, input, record, cardVars, schedVars, storeVars>>

\* model_optimized, line 130: the condition of the while is false
SmtOptLoopExit ==
    /\ pipeline = "smt_opt" /\ pc = "loop"
    /\ loop.now >= Seconds(input.time_limit)
    /\ pc' = "after_loop"
    /\ UNCHANGED <<pipeline, input, loop, result, record, cardVars, schedVars, storeVars>>

\* model_optimized, lines 167-308
SmtOptReturn ==
    /\ pipeline = "smt_opt" /\ pc = "after_loop"
    /\ result' = Some(smt_model_optimized(loop.best_obj, loop.best_model,
                                          input.begin, loop.now,
                                          input.time_limit))
    /\ pc' = "returned"
    /\ UNCHANGED <<pipeline, input, loop, record, cardVars, schedVars, storeVars>>

\* SMT save_solution_to_json, key smt_opt
SmtOptSave ==
    /\ pipeline = "smt_opt" /\ pc = "returned"
    /\ record' = Some(smt_save_opt(input.n, result[1]))
    /\ pc' = "saved"
    /\ UNCHANGED <<pipeline, input, loop, result, cardVars, schedVars, storeVars>>

\* MILP solve_instance; its result is the record that is saved
MipSolveInstance ==
    /\ pipeline = "mip" /\ pc = "start"
    /\ record' = Some(IF input.run.lp_status = "raise"
                      THEN mip_solve_exception(input.solve_time)
                      ELSE mip_solve_instance(input.n, input.is_optimization,
                                              input.time_limit,
                                              input.run.lp_status,
                                              input.run.any_value,
                                              input.run.sol, input.solve_time))
    /\ pc' = "saved"
    /\ UNCHANGED <<pipeline, input, loop, result, cardVars, schedVars, storeVars>>

NextCert ==
    \/ CpParse
    \/ CpReturn
    \/ CpRaise
    \/ SatSolve
    \/ SatSave
    \/ SmtSolve
    \/ SmtSave
    \/ SmtOptStart
    \/ SmtOptCheck
    \/ SmtOptRaise
    \/ SmtOptLoopExit
    \/ SmtOptReturn
    \/ SmtOptSave
    \/ MipSolveInstance

SpecCert == InitCert /\ [][NextCert]_vars

InitCard ==
    /\ bool_vals \in UNION {[1..k -> BOOLEAN] : k \in 1..MaxK}
    /\ np_accepts = "unset"
    /\ he_accepts = "unset"
    /\ sat_model = <<>>
    /\ SchedIdle
    /\ CertIdle
    /\ StoreIdle

\* s.add(exactly_one_np(bool_vars)); s.check() with the inputs fixed
CheckExactlyOneNp ==
    /\ np_accepts = "unset"
    /\ np_accepts' = Answer(exactly_one_np(bool_vals))
    /\ UNCHANGED <<bool_vals, he_accepts, sat_model, schedVars, certVars, storeVars>>

\* s.add(exactly_one_he(bool_vars, name)); s.check() with the inputs fixed
CheckExactlyOneHe ==
    /\ he_accepts = "unset"
    /\ he_accepts' = Answer(exactly_one_he(bool_vals, CardName))
    /\ UNCHANGED <<bool_vals, np_accepts, sat_model, schedVars, certVars, storeVars>>

NextCard == CheckExactlyOneNp \/ CheckExactlyOneHe

SpecCard == InitCard /\ [][NextCard]_vars

(***************************************************************************)
(* The solver.                                                             *)
(*                                                                         *)
(* A check of a constraint set answers sat with a model, which can be any  *)
(* assignment of the decision variables that satisfies every constraint,   *)
(* or unsat when no assignment does.  The assignments are enumerated from  *)
(* the values of the variables of one week that satisfy the constraints on *)
(* that week alone; the weeks are then put together and the constraints    *)
(* over several weeks applied.  No constraint relates the homes and the    *)
(* periods, so the models over given opponents are the pairs of a home     *)
(* part and a period part.                                                 *)
(***************************************************************************)
\* the constraint models: the two encodings of the SAT model, the SMT model
\* for satisfiability and for optimization, the MILP model for
\* satisfiability and for optimization
Kinds == {"sat_np", "sat_he", "smt", "smt_opt", "mip", "mip_opt"}

Family(kd) ==
    IF kd \in {"sat_np", "sat_he"} THEN "sat"
    ELSE IF kd \in {"smt", "smt_opt"} THEN "smt" ELSE "mip"

Encoding(kd) == IF kd = "sat_np" THEN "np" ELSE "he"

IsOpt(kd) == kd \in {"smt_opt", "mip_opt"}

\* SMT: the opponent arrays and the period arrays of one week
smt_opp_weeks ==
    Memo([k \in TeamCounts |->
            Explicit({o \in [Teams(k) -> RawInts(k)] : smt_opp_week(k, o)})])
smt_period_weeks ==
    Memo([k \in TeamCounts |->
            Explicit({p \in [Teams(k) -> RawPeriods(k)] : smt_period_range(k, p)})])

\* SAT: the match variables of week w
sat_opp_weeks(k, enc, w) ==
    Explicit({m \in SUBSET Pairs(k) : sat_team_week(k, enc, w, m)})

\* SAT: the values of the period variables of one team that the constraint
\* of some team accepts
sat_period_rows(k, enc, w) ==
    {row \in SUBSET Periods(k) :
        \E t \in Teams(k) : sat_period_row(k, enc, w, t, row)}

\* SAT: the constraints on the periods of week w alone
sat_period_range(k, enc, w, p) ==
    /\ \A t \in Teams(k) : sat_period_row(k, enc, w, t, p[t])
    /\ sat_period_count(k, p)

\* SAT: the period variables of week w
sat_period_weeks(k, enc, w) ==
    Explicit({p \in [Teams(k) -> sat_period_rows(k, enc, w)] :
                 sat_period_range(k, enc, w, p)})

\* MILP: the rows opp[w][t] that the constraint of some team accepts
mip_opp_rows(k) == {c[2] : c \in mip_one_opponent_accepts[k]}

\* MILP: the opponent variables and the period variables of one week
mip_opp_weeks ==
    Memo([k \in TeamCounts |->
            Explicit({o \in [Teams(k) -> mip_opp_rows(k)] : mip_opp_week(k, o)})])
mip_period_weeks ==
    Memo([k \in TeamCounts |->
            Explicit({p \in [Teams(k) -> {row \in SUBSET Periods(k) :
                                              mip_one_period(k, row)}] :
                         mip_period_range(k, p)})])

\* whether the constraints that fix the first match apply to week w
FirstMatchFixed(kd, sym, w) == IsOpt(kd) /\ sym /\ w = 0

\* the opponents of week w that satisfy the constraints on the week alone
OppWeeks(kd, k, sym, w) ==
    IF Family(kd) = "smt"
    THEN {o \in smt_opp_weeks[k] :
             FirstMatchFixed(kd, sym, w) => smt_opt_first_opp(o)}
    ELSE IF Family(kd) = "sat" THEN sat_opp_weeks(k, Encoding(kd), w)
    ELSE {o \in mip_opp_weeks[k] :
             FirstMatchFixed(kd, sym, w) => mip_opt_first_opp(o)}

\* the periods of week w that satisfy the constraints on the week, given
\* its opponents o
PeriodWeeks(kd, k, sym, w, o) ==
    IF Family(kd) = "smt"
    THEN {p \in smt_period_weeks[k] : smt_period_week(k, o, p)}
    ELSE IF Family(kd) = "sat"
    THEN {p \in sat_period_weeks(k, Encoding(kd), w) : sat_same_period(k, o, p)}
    ELSE {p \in mip_period_weeks[k] :
             /\ mip_same_period(k, o, p)
             /\ FirstMatchFixed(kd, sym, w) => mip_opt_first_period(p)}

\* the homes of week w that satisfy the constraints on the week, given its
\* opponents o
HomeWeeks(kd, k, sym, w, o) ==
    IF Family(kd) = "smt"
    THEN {h \in [Teams(k) -> BOOLEAN] :
             /\ smt_home_week(k, o, h)
             /\ FirstMatchFixed(kd, sym, w) => smt_opt_first_home(h)}
    ELSE IF Family(kd) = "sat"
    THEN {h \in [Teams(k) -> BOOLEAN] : sat_home_week(k, o, h)}
    ELSE {h \in [Teams(k) -> {0, 1}] :
             /\ mip_home_week(k, o, h)
             /\ FirstMatchFixed(kd, sym, w) => mip_opt_first_home(h)}

\* the weeks 0..w-1 of f, with x for week w
Extend(f, w, x) == [v \in 0..w |-> IF v = w THEN x ELSE f[v]]

\* whether teams i and j are opponents under the opponents o of a week
Met(kd, o, i, j) ==
    IF Family(kd) = "smt" THEN o[i] = j
    ELSE IF Family(kd) = "sat" THEN <<i, j>> \in o
    ELSE j \in o[i]

\* whether team t is at home under the homes h of a week
AtHome(kd, h, t) == IF Family(kd) = "mip" THEN h[t] = 1 ELSE h[t]

\* the week-ordering constraint of the model, over the weeks ws
week_order(kd, k, oo, ws) ==
    IF Family(kd) = "smt" THEN smt_week_order(oo, ws)
    ELSE IF Family(kd) = "sat" THEN sat_week_order(k, oo, ws)
    ELSE mip_week_order(k, oo, ws)

\* the period cap of the model, over the weeks ws
period_cap(kd, k, pp, ws) ==
    IF Family(kd) = "smt" THEN smt_period_cap(k, pp, ws)
    ELSE IF Family(kd) = "sat" THEN sat_period_cap(k, pp, ws)
    ELSE mip_period_cap(k, pp, ws)

\* no pair has met twice in the weeks 0..w-1, and these weeks are in order
OppPrefixOk(kd, k, sym, oo, w) ==
    /\ \A c \in Pairs(k) :
          CountIf(0..(w - 1), LAMBDA v : Met(kd, oo[v], c[1], c[2])) <= 1
    /\ sym => week_order(kd, k, oo, 0..(w - 1))

\* the breaks within the weeks 0..w-1
BreaksWithin(kd, k, hh, w) ==
    Cardinality({c \in (1..(w - 1)) \X Teams(k) :
                    AtHome(kd, hh[c[1]], c[2]) = AtHome(kd, hh[c[1] - 1], c[2])})

\* the largest number of breaks of an enumerated model
BreakBound(k) == optimal_objective(k) + MaxExtraBreaks

\* the opponents of the weeks 0..w-1 in which no pair meets twice
RECURSIVE OppSeqs(_, _, _, _)
OppSeqs(kd, k, sym, w) ==
    IF w = 0 THEN {<<>>}
    ELSE {g \in {Extend(f, w - 1, x) :
                    f \in OppSeqs(kd, k, sym, w - 1),
                    x \in OppWeeks(kd, k, sym, w - 1)} :
             OppPrefixOk(kd, k, sym, g, w)}

\* the periods of the weeks 0..w-1 under the opponents oo, within the cap
RECURSIVE PeriodSeqs(_, _, _, _, _)
PeriodSeqs(kd, k, sym, oo, w) ==
    IF w = 0 THEN {<<>>}
    ELSE {g \in {Extend(f, w - 1, x) :
                    f \in PeriodSeqs(kd, k, sym, oo, w - 1),
                    x \in PeriodWeeks(kd, k, sym, w - 1, oo[w - 1])} :
             period_cap(kd, k, g, 0..(w - 1))}

\* the homes of the weeks 0..w-1 under the opponents oo, within the bound
\* on the breaks
RECURSIVE HomeSeqs(_, _, _, _, _)
HomeSeqs(kd, k, sym, oo, w) ==
    IF w = 0 THEN {<<>>}
    ELSE {g \in {Extend(f, w - 1, x) :
                    f \in HomeSeqs(kd, k, sym, oo, w - 1),
                    x \in HomeWeeks(kd, k, sym, w - 1, oo[w - 1])} :
             BreaksWithin(kd, k, g, w) <= BreakBound(k)}

\* Sat_Model: the constraints on the match variables, with add_symmetry
\* when sym
sat_opp_constraints(k, enc, sym, mm) ==
    /\ \A w \in Weeks(k) : sat_team_week(k, enc, w, mm[w])
    /\ sat_meet_once(k, enc, mm)
    /\ sym => sat_week_order(k, mm, Weeks(k))

\* Sat_Model: the constraints on the period variables
sat_period_constraints(k, enc, mm, pp) ==
    /\ \A w \in Weeks(k) :
          /\ sat_period_range(k, enc, w, pp[w])
          /\ sat_same_period(k, mm[w], pp[w])
    /\ sat_period_cap(k, pp, Weeks(k))

\* Sat_Model: the constraints on the home variables
sat_home_constraints(k, mm, hh) ==
    \A w \in Weeks(k) : sat_home_week(k, mm[w], hh[w])

\* model_satisfiable / model_optimized: the constraints on the opponents
smt_opp_constraints(k, opt, sym, oo) ==
    /\ \A w \in Weeks(k) : smt_opp_week(k, oo[w])
    /\ smt_meet_once(k, oo)
    /\ sym => (opt => smt_opt_first_opp(oo[0])) /\ smt_week_order(oo, Weeks(k))

\* model_satisfiable / model_optimized: the constraints on the periods
smt_period_constraints(k, oo, pp) ==
    /\ \A w \in Weeks(k) : smt_period_week(k, oo[w], pp[w])
    /\ smt_period_cap(k, pp, Weeks(k))

\* model_satisfiable / model_optimized: the constraints on the homes
smt_home_constraints(k, opt, sym, oo, hh) ==
    /\ \A w \in Weeks(k) : smt_home_week(k, oo[w], hh[w])
    /\ opt => smt_opt_obj_bounds(k, hh)
    /\ (opt /\ sym) => smt_opt_first_home(hh[0])

\* the MILP models: the constraints on the opponents
mip_opp_constraints(k, opt, sym, oo) ==
    /\ \A w \in Weeks(k) : mip_opp_week(k, oo[w])
    /\ mip_meet_once(k, oo)
    /\ sym => mip_week_order(k, oo, Weeks(k)) /\ (opt => mip_opt_first_opp(oo[0]))

\* the MILP models: the constraints on the periods
mip_period_constraints(k, opt, sym, oo, pp) ==
    /\ \A w \in Weeks(k) :
          /\ mip_period_range(k, pp[w])
          /\ mip_same_period(k, oo[w], pp[w])
    /\ mip_period_cap(k, pp, Weeks(k))
    /\ (opt /\ sym) => mip_opt_first_period(pp[0])

\* the MILP models: the constraints on the homes
mip_home_constraints(k, opt, sym, oo, hh) ==
    /\ \A w \in Weeks(k) : mip_home_week(k, oo[w], hh[w])
    /\ opt => mip_opt_break_bounds(k, hh)
    /\ (opt /\ sym) => mip_opt_first_home(hh[0])

\* the opponents that satisfy the constraint set of the model kd
OppTable(kd, k, sym) ==
    {oo \in OppSeqs(kd, k, sym, W(k)) :
        IF Family(kd) = "sat" THEN sat_opp_constraints(k, Encoding(kd), sym, oo)
        ELSE IF Family(kd) = "smt" THEN smt_opp_constraints(k, IsOpt(kd), sym, oo)
        ELSE mip_opp_constraints(k, IsOpt(kd), sym, oo)}

\* the periods that satisfy the constraint set under the opponents oo
PeriodTable(kd, k, sym, oo) ==
    {pp \in PeriodSeqs(kd, k, sym, oo, W(k)) :
        IF Family(kd) = "sat" THEN sat_period_constraints(k, Encoding(kd), oo, pp)
        ELSE IF Family(kd) = "smt" THEN smt_period_constraints(k, oo, pp)
        ELSE mip_period_constraints(k, IsOpt(kd), sym, oo, pp)}

\* the homes that satisfy the constraint set under the opponents oo
HomeTable(kd, k, sym, oo) ==
    {hh \in HomeSeqs(kd, k, sym, oo, W(k)) :
        IF Family(kd) = "sat" THEN sat_home_constraints(k, oo, hh)
        ELSE IF Family(kd) = "smt" THEN smt_home_constraints(k, IsOpt(kd), sym, oo, hh)
        ELSE mip_home_constraints(k, IsOpt(kd), sym, oo, hh)}

\* the constraint sets that are built and solved: the optimization model of
\* MILP_Optimization_SB.py always has its symmetry-breaking constraints
Configs ==
    {c \in Kinds \X TeamCounts \X BOOLEAN :
        /\ c[3] \/ c[2] <= MaxFreeTeams
        /\ c[1] = "mip_opt" => c[3]}

\* the models of a constraint set among which the check chooses: the
\* opponents, each with its home parts and its period parts
SolverModels(kd, k, sym) ==
    {<<oo, Explicit(HomeTable(kd, k, sym, oo)),
       Explicit(PeriodTable(kd, k, sym, oo))>> : oo \in OppTable(kd, k, sym)}

\* whether the homes hh of the weeks 0..w-1 extend to homes that satisfy
\* the constraint set under the opponents oo
RECURSIVE has_homes(_, _, _, _, _, _)
has_homes(kd, k, sym, oo, hh, w) ==
    IF w = W(k)
    THEN IF Family(kd) = "sat" THEN sat_home_constraints(k, oo, hh)
         ELSE IF Family(kd) = "smt"
         THEN smt_home_constraints(k, IsOpt(kd), sym, oo, hh)
         ELSE mip_home_constraints(k, IsOpt(kd), sym, oo, hh)
    ELSE \E x \in HomeWeeks(kd, k, sym, w, oo[w]) :
            has_homes(kd, k, sym, oo, Extend(hh, w, x), w + 1)

\* whether the periods pp of the weeks 0..w-1 extend to periods that satisfy
\* the constraint set under the opponents oo
RECURSIVE has_periods(_, _, _, _, _, _)
has_periods(kd, k, sym, oo, pp, w) ==
    IF w = W(k)
    THEN IF Family(kd) = "sat"
         THEN sat_period_constraints(k, Encoding(kd), oo, pp)
         ELSE IF Family(kd) = "smt" THEN smt_period_constraints(k, oo, pp)
         ELSE mip_period_constraints(k, IsOpt(kd), sym, oo, pp)
    ELSE \E x \in PeriodWeeks(kd, k, sym, w, oo[w]) :
            /\ period_cap(kd, k, Extend(pp, w, x), 0..w)
            /\ has_periods(kd, k, sym, oo, Extend(pp, w, x), w + 1)

\* whether the opponents oo of the weeks 0..w-1 extend to a model of the
\* constraint set
RECURSIVE has_model(_, _, _, _, _)
has_model(kd, k, sym, oo, w) ==
    IF w = W(k)
    THEN /\ IF Family(kd) = "sat"
            THEN sat_opp_constraints(k, Encoding(kd), sym, oo)
            ELSE IF Family(kd) = "smt"
            THEN smt_opp_constraints(k, IsOpt(kd), sym, oo)
            ELSE mip_opp_constraints(k, IsOpt(kd), sym, oo)
         /\ has_homes(kd, k, sym, oo, <<>>, 0)
         /\ has_periods(kd, k, sym, oo, <<>>, 0)
    ELSE \E x \in OppWeeks(kd, k, sym, w) :
            /\ OppPrefixOk(kd, k, sym, Extend(oo, w, x), w + 1)
            /\ has_model(kd, k, sym, Extend(oo, w, x), w + 1)

\* the answer of the check of the constraint set whose opponents are in ms:
\* whether it has a model, with any number of breaks
check_sat(kd, k, sym, ms) ==
    \E f \in ms :
        /\ has_homes(kd, k, sym, f[1], <<>>, 0)
        /\ has_periods(kd, k, sym, f[1], <<>>, 0)

(***************************************************************************)
(* ResultExtractor: from the model of the solver to the schedule.          *)
(***************************************************************************)
\* the pairs i < j in the order of `for i in Teams: for j in Teams`
PairSeq(k) ==
    SelectSeq([x \in 1..(k * k) |-> <<(x - 1) \div k, (x - 1) % k>>],
              LAMBDA c : c[1] < c[2])

\* the first period of a row with a true variable
first_period(row) == CHOOSE q \in row : \A r \in row : q <= r

\* a plausible slip: home and away exchanged
sat_week_matches_swapped(k, m, p, h) ==
    LET found == SelectSeq(PairSeq(k), LAMBDA c : c \in m)
    IN  [x \in 1..Len(found) |->
            LET i == found[x][1]
                j == found[x][2]
            IN  [home_team |-> IF h[i] THEN j ELSE i,
                 away_team |-> IF h[i] THEN i ELSE j,
                 period    |-> IF p[i] = {} THEN 0 ELSE first_period(p[i])]]

\* Sat_Model.solve, lines 141-159: the matches of one week
sat_week_matches(k, m, p, h) ==
    LET found == SelectSeq(PairSeq(k), LAMBDA c : c \in m)
    IN  [x \in 1..Len(found) |->
            LET i == found[x][1]
                j == found[x][2]
            IN  [home_team |-> IF h[i] THEN i ELSE j,
                 away_team |-> IF h[i] THEN j ELSE i,
                 period    |-> IF p[i] = {} THEN 0 ELSE first_period(p[i])]]

\* Sat_Model.solve, lines 137-161: schedule["weeks"]
sat_extract(k, mm, pp, hh) ==
    [w \in 1..W(k) |-> sat_week_matches(k, mm[w - 1], pp[w - 1], hh[w - 1])]

\* model_satisfiable, lines 147-178: the matches of one week from team t
\* on, `printed` being the matches appended so far (a period variable of a
\* model always has an integer value)
RECURSIVE smt_week_sch(_, _, _, _, _, _)
smt_week_sch(k, o, p, h, t, printed) ==
    IF t = k THEN <<>>
    ELSE IF <<o[t], t>> \notin printed /\ <<t, o[t]>> \notin printed
    THEN <<[home_team |-> IF h[t] THEN t ELSE o[t],
            away_team |-> IF h[t] THEN o[t] ELSE t,
            period    |-> p[t]]>>
         \o smt_week_sch(k, o, p, h, t + 1, printed \cup {<<t, o[t]>>})
    ELSE smt_week_sch(k, o, p, h, t + 1, printed)

\* model_satisfiable, lines 143-180: schedule["weeks"]
smt_extract(k, oo, pp, hh) ==
    [w \in 1..W(k) |-> smt_week_sch(k, oo[w - 1], pp[w - 1], hh[w - 1], 0, {})]

\* a plausible slip of the break loop: the first week is skipped, prev_home
\* is first set in week 1
smt_break_loop_from_second_week(k, hh) ==
    [t \in Teams(k) |->
        CountIf(2..(W(k) - 1), LAMBDA w : hh[w][t] = hh[w - 1][t])]

\* model_satisfiable, lines 183-189: schedule["breaks"]
smt_break_loop(k, hh) ==
    [t \in Teams(k) |->
        CountIf(1..(W(k) - 1), LAMBDA w : hh[w][t] = hh[w - 1][t])]

\* a plausible slip: the test `(t2, t1) not in pairs` left out
mip_pair_added_both_orders(o, p, t1, t2) ==
    /\ t1 # t2
    /\ t2 \in o[t1]
    /\ p[t1] # {}

\* extract_schedule_from_solution, lines 62-72: whether the body of the
\* `if` runs for (t1, t2) and adds it to `pairs`; (t2, t1) is in `pairs`
\* only when it came first, i.e. when t2 < t1
mip_pair_added(o, p, t1, t2) ==
    /\ t1 # t2
    /\ t2 \in o[t1]
    /\ t2 < t1 => ~(t1 \in o[t2] /\ p[t2] # {})
    /\ p[t1] # {}

\* extract_schedule_from_solution: a plausible slip, the teams of a cell
\* left 0-indexed
mip_cell_zero_indexed(k, o, p, h, q) ==
    LET hits == {c \in Teams(k) \X Teams(k) :
                    mip_pair_added(o, p, c[1], c[2]) /\ first_period(p[c[1]]) = q}
    IN  IF hits = {} THEN None
        ELSE LET last == CHOOSE c \in hits :
                            \A d \in hits :
                                d[1] < c[1] \/ (d[1] = c[1] /\ d[2] <= c[2])
             IN  IF 2 * h[last[1]] > 1
                 THEN <<last[1], last[2]>>
                 ELSE <<last[2], last[1]>>

\* extract_schedule_from_solution: the cell schedule[q][w] after the loops
\* over t1 and t2, the last assignment made to it
mip_cell(k, o, p, h, q) ==
    LET hits == {c \in Teams(k) \X Teams(k) :
                    mip_pair_added(o, p, c[1], c[2]) /\ first_period(p[c[1]]) = q}
    IN  IF hits = {} THEN None
        ELSE LET last == CHOOSE c \in hits :
                            \A d \in hits :
                                d[1] < c[1] \/ (d[1] = c[1] /\ d[2] <= c[2])
             IN  IF 2 * h[last[1]] > 1
                 THEN <<last[1] + 1, last[2] + 1>>
                 ELSE <<last[2] + 1, last[1] + 1>>

\* extract_schedule_from_solution (MILP/mip_docker_utils.py, lines 36-74)
extract_schedule_from_solution(k, oo, hh, pp) ==
    [q \in 1..P(k) |->
        [w \in 1..W(k) |-> mip_cell(k, oo[w - 1], pp[w - 1], hh[w - 1], q - 1)]]

(***************************************************************************)
(* The runs of the model functions on a constraint set.                    *)
(***************************************************************************)
InitSched ==
    /\ CardIdle
    /\ CertIdle
    /\ StoreIdle
    /\ \E c \in Configs :
          /\ kind = c[1]
          /\ n = c[2]
          /\ symmetry = c[3]
          /\ models = SolverModels(c[1], c[2], c[3])
    /\ status = "built"
    /\ opp = <<>>
    /\ period = <<>>
    /\ home = <<>>
    /\ schedule = <<>>
    /\ sol_matrix = <<>>
    /\ total_breaks = -1
    /\ breaks = <<>>
    /\ accepts = <<>>

\* Sat_Model.solve (lines 121-174): add_symmetry, the check, the extraction
SatModelSolve ==
    /\ status = "built"
    /\ Family(kind) = "sat"
    /\ IF ~check_sat(kind, n, symmetry, models)
       THEN /\ status' = "unsat"
            /\ UNCHANGED <<opp, period, home, schedule>>
       ELSE \E f \in models :
                \E hh \in f[2] : \E pp \in f[3] :
                    /\ status' = "sat"
                    /\ opp' = f[1]
                    /\ home' = hh
                    /\ period' = pp
                    /\ schedule' = sat_extract(n, f[1], pp, hh)
    /\ models' = {}
    /\ UNCHANGED <<accepts, breaks, n, kind, symmetry, sol_matrix, total_breaks, cardVars, certVars, storeVars>>

\* SAT save_solution_to_json (lines 222-234): the matrix of a feasible result
SatSaveSol ==
    /\ status = "sat"
    /\ Family(kind) = "sat"
    /\ sol_matrix' = sat_sol(n, schedule)
    /\ status' = "saved"
    /\ UNCHANGED <<accepts, breaks, n, kind, symmetry, opp, period, home, models, schedule,
                   total_breaks, cardVars, certVars, storeVars>>

\* model_satisfiable (lines 104-199): the check, the extraction, the breaks
SmtModelSatisfiable ==
    /\ status = "built"
    /\ kind = "smt"
    /\ IF ~check_sat(kind, n, symmetry, models)
       THEN /\ status' = "unsat"
            /\ UNCHANGED <<opp, period, home, schedule, total_breaks>>
       ELSE \E f \in models :
                \E hh \in f[2] : \E pp \in f[3] :
                    /\ status' = "sat"
                    /\ opp' = f[1]
                    /\ home' = hh
                    /\ period' = pp
                    /\ schedule' = smt_extract(n, f[1], pp, hh)
                    /\ total_breaks' = SumTo(smt_break_loop(n, hh), n)
    /\ models' = {}
    /\ UNCHANGED <<accepts, breaks, n, kind, symmetry, sol_matrix, cardVars, certVars, storeVars>>

\* model_optimized (lines 130-240): the loop ends with no model, or with
\* best_model, a model of the constraint set, and best_obj, its objective
SmtModelOptimized ==
    /\ status = "built"
    /\ kind = "smt_opt"
    /\ IF ~check_sat(kind, n, symmetry, models)
       THEN /\ status' = "unsat"
            /\ UNCHANGED <<opp, period, home, schedule, total_breaks>>
       ELSE \E f \in models :
                \E hh \in f[2] : \E pp \in f[3] :
                    /\ status' = "sat"
                    /\ opp' = f[1]
                    /\ home' = hh
                    /\ period' = pp
                    /\ schedule' = smt_extract(n, f[1], pp, hh)
                    /\ total_breaks' = smt_opt_obj(n, hh)
    /\ models' = {}
    /\ UNCHANGED <<accepts, breaks, n, kind, symmetry, sol_matrix, cardVars, certVars, storeVars>>

\* SMT save_solution_to_json: convert_schedule_to_periods of a schedule
SmtConvertSchedule ==
    /\ status = "sat"
    /\ Family(kind) = "smt"
    /\ sol_matrix' = convert_schedule_to_periods(n, schedule)
    /\ status' = "saved"
    /\ UNCHANGED <<accepts, breaks, n, kind, symmetry, opp, period, home, models, schedule,
                   total_breaks, cardVars, certVars, storeVars>>

\* MILP solve_instance (lines 31-88): the solve, extract_schedule_from_solution
\* and, for the optimization model, calculate_breaks
MipModelSolve ==
    /\ status = "built"
    /\ Family(kind) = "mip"
    /\ IF ~check_sat(kind, n, symmetry, models)
       THEN /\ status' = "unsat"
            /\ UNCHANGED <<opp, period, home, sol_matrix, total_breaks>>
       ELSE \E f \in models :
                \E hh \in f[2] : \E pp \in f[3] :
                    /\ status' = "saved"
                    /\ opp' = f[1]
                    /\ home' = hh
                    /\ period' = pp
                    /\ sol_matrix' = extract_schedule_from_solution(n, f[1], hh, pp)
                    /\ total_breaks' = IF IsOpt(kind)
                                       THEN calculate_breaks(n, hh)
                                       ELSE total_breaks
    /\ models' = {}
    /\ UNCHANGED <<accepts, breaks, n, kind, symmetry, schedule, cardVars, certVars, storeVars>>

NextSched ==
    \/ SatModelSolve
    \/ SatSaveSol
    \/ SmtModelSatisfiable
    \/ SmtModelOptimized
    \/ SmtConvertSchedule
    \/ MipModelSolve

SpecSched == InitSched /\ [][NextSched]_vars

(***************************************************************************)
(* The result store: save_solution_to_json (CP/cp_docker_utils.py, lines   *)
(* 8-36; MILP/mip_docker_utils.py, lines 5-34; SMT/smt_docker_utils.py,    *)
(* lines 5-94).  The file <n>.json is missing, holds a JSON object, or     *)
(* cannot be read or decoded; `data` is the object it holds, configuration *)
(* key -> record.                                                          *)
(***************************************************************************)
\* the largest number of save_solution_to_json calls of a run
MaxSaves == 2

\* the team counts whose files the saves write
StoreTeams == {4, 6}

\* configuration keys of the CP pipeline
StoreKeys == {"gecode_satisfiability_base", "chuffed_optimiz_ch_FF"}

\* records of the CP pipeline: of a run that raised, of an unsatisfiable log
StoreRecords ==
    {cp_run_exception, parse_minizinc_output(<<TextLine(unsatisfiable)>>, FALSE, 4)}

EmptyDict == [key \in {} |-> None]

\* the dictionaries with keys among keys
Dicts(keys) == UNION {[ks -> StoreRecords] : ks \in SUBSET keys}

\* the states of a file
Files ==
    [state : {"missing"}, data : {EmptyDict}]
        \cup [state : {"object", "unreadable"}, data : Dicts(StoreKeys)]

\* lines 21-27: existing_results after the load; {} when the file is missing
\* or json.load raised JSONDecodeError or IOError
load_existing(file) ==
    IF file.state = "object" THEN file.data ELSE EmptyDict

\* the update replaced by an assignment of the new results
dict_update_replacing(existing_results, results) == results

\* line 30: existing_results.update(results)
dict_update(existing_results, results) ==
    [key \in DOMAIN existing_results \cup DOMAIN results |->
        IF key \in DOMAIN results THEN results[key] ELSE existing_results[key]]

\* lines 32-33: the file after json.dump
written(existing_results) == [state |-> "object", data |-> existing_results]

\* save_solution_to_json of the CP and MILP pipelines
save_solution_to_json(file, results) ==
    written(dict_update(load_existing(file), results))

InitSave ==
    /\ CardIdle
    /\ SchedIdle
    /\ CertIdle
    /\ store \in [StoreTeams -> Files]
    /\ first_store = store
    /\ saves = <<>>
    /\ savers = <<>>
    /\ batch = <<>>
    /\ call = <<>>

\* one call save_solution_to_json(k, results), from its load to its dump
SaveSolutionToJson ==
    /\ Len(saves) < MaxSaves
    /\ \E k \in StoreTeams :
         \E results \in Dicts(StoreKeys) \ {EmptyDict} :
            /\ store' = [store EXCEPT ![k] = save_solution_to_json(@, results)]
            /\ saves' = Append(saves, [n |-> k, results |-> results])
    /\ UNCHANGED <<first_store, savers, batch, call, cardVars, schedVars, certVars>>

NextSave == SaveSolutionToJson

SpecSave == InitSave /\ [][NextSave]_vars

(***************************************************************************)
(* Two save_solution_to_json calls for the same n that run in two          *)
(* processes.  A call loads the file, updates the loaded dictionary with   *)
(* its results and dumps it; nothing orders the steps of the two calls.    *)
(***************************************************************************)
Savers == {1, 2}

\* smt_docker_utils.py, line 22: "smt_opt" in result_key
IsOptKey(key) == key \in {"smt_opt", "smt_opt_sb"}

\* smt_docker_utils.py, lines 19-85: new_results
smt_new_results(k, results) ==
    [key \in DOMAIN results |->
        IF IsOptKey(key) THEN smt_save_opt(k, results[key])
        ELSE smt_save_satisf(k, results[key])]

\* what a call merges into the loaded dictionary: the CP call its results,
\* the SMT call the records made of them
new_results(util, k, results) ==
    IF util = "smt" THEN smt_new_results(k, results) ELSE results

\* the results the two calls save: each the result of one configuration
SaverResults(util, p) ==
    IF util = "cp"
    THEN {[key \in {IF p = 1 THEN "gecode_satisfiability_base"
                    ELSE "chuffed_optimiz_ch_FF"} |-> r] : r \in StoreRecords}
    ELSE IF p = 1
    THEN {[key \in {"smt_satisf"} |-> r] :
            r \in {smt_model_satisfiable("unsat", 400, 300, <<>>),
                   smt_model_satisfiable("unknown", 300000, 300, <<>>)}}
    ELSE {[key \in {"smt_opt_sb"} |-> r] :
            r \in {smt_model_optimized(None, None, 400, 800, 300),
                   smt_model_optimized(None, None, 400, 300000, 300)}}

InitRace ==
    /\ CardIdle
    /\ SchedIdle
    /\ CertIdle
    /\ \E k \in StoreTeams :
         /\ store \in [{k} -> [state : {"missing", "object", "unreadable"},
                               data : {EmptyDict}]]
         /\ \E util \in {"cp", "smt"} :
              \E r1 \in SaverResults(util, 1) :
                \E r2 \in SaverResults(util, 2) :
                  savers = [p \in Savers |->
                              [pc |-> "start", util |-> util, n |-> k,
                               results |-> IF p = 1 THEN r1 ELSE r2,
                               existing_results |-> EmptyDict,
                               after_other |-> FALSE]]
    /\ first_store = store
    /\ saves = <<>>
    /\ batch = <<>>
    /\ call = <<>>

\* lines 21-27 of the call of process p: the load; after_other tells whether
\* the other call had dumped by then
SaverLoad(p) ==
    /\ savers[p].pc = "start"
    /\ savers' = [savers EXCEPT
                    ![p].pc = "loaded",
                    ![p].existing_results = load_existing(store[savers[p].n]),
                    ![p].after_other = \E q \in Savers \ {p} : savers[q].pc = "done"]
    /\ UNCHANGED <<store, first_store, saves, batch, call, cardVars, schedVars, certVars>>

\* line 30 of the call of process p: the update
SaverUpdate(p) ==
    /\ savers[p].pc = "loaded"
    /\ savers' = [savers EXCEPT
                    ![p].pc = "updated",
                    ![p].existing_results =
                        dict_update(@, new_results(savers[p].util, savers[p].n,
                                                   savers[p].results))]
    /\ UNCHANGED <<store, first_store, saves, batch, call, cardVars, schedVars, certVars>>

\* lines 32-33 of the call of process p: the dump
SaverDump(p) ==
    /\ savers[p].pc = "updated"
    /\ store' = [store EXCEPT ![savers[p].n] = written(savers[p].existing_results)]
    /\ savers' = [savers EXCEPT ![p].pc = "done"]
    /\ UNCHANGED <<first_store, saves, batch, call, cardVars, schedVars, certVars>>

NextRace ==
    \/ \E p \in Savers : SaverLoad(p)
    \/ \E p \in Savers : SaverUpdate(p)
    \/ \E p \in Savers : SaverDump(p)

SpecRace == InitRace /\ [][NextRace]_vars

(***************************************************************************)
(* The batch modes: the auto mode of SAT/STS_SAT_satisf.py (lines 312-341) *)
(* and solve_all_instances of CP/CP_STS.py (lines 177-218), of             *)
(* SMT/smt_model.py (lines 83-121) and of MILP/mip_model.py (lines         *)
(* 162-197).  The solve of a pair (n, configuration) returns an answer, or *)
(* its backend raises and the handler of the solve function returns the    *)
(* result of the failure.                                                  *)
(***************************************************************************)
\* the number of instances of the batch, and the largest number of solves
\* of a batch that fail
MaxBatchInstances == 2
MaxFailures == 1

\* the first instances of the lists `instances`
BatchInstances == SubSeq(<<2, 4, 6>>, 1, Min(MaxBatchInstances, 3))

\* the configuration keys of a driver, in the order of its loops; of the 34
\* CP models the models 1, 7 and 11
ConfigKeys(driver) ==
    IF driver = "sat"
    THEN <<"sat_np", "sat_heule", "sat_np_sb", "sat_heule_sb">>
    ELSE IF driver = "smt"
    THEN <<"smt_satisf", "smt_satisf_sb", "smt_opt", "smt_opt_sb">>
    ELSE IF driver = "mip"
    THEN <<"mip_satisf_CBC", "mip_satisf_CBC_SB", "mip_opt_CBC", "mip_opt_CBC_SB",
           "mip_satisf_SCIP", "mip_satisf_SCIP_SB", "mip_opt_SCIP",
           "mip_opt_SCIP_SB", "mip_satisf_HiGHS", "mip_satisf_HiGHS_SB",
           "mip_opt_HiGHS", "mip_opt_HiGHS_SB">>
    ELSE <<"chuffed_satisfiability_ch_base", "chuffed_optimiz_ch_FF",
           "gecode_satisfiability_base">>

\* whether the configuration of the key is an optimization
IsOptConfig(key) ==
    key \in {"smt_opt", "smt_opt_sb", "chuffed_optimiz_ch_FF", "mip_opt_CBC",
             "mip_opt_CBC_SB", "mip_opt_SCIP", "mip_opt_SCIP_SB",
             "mip_opt_HiGHS", "mip_opt_HiGHS_SB"}

\* the schedule a solve of k teams finds, if the instance has one
FoundSol(k) == CHOOSE sol \in ExampleSols(k) : TRUE

\* the log of a CP run of k teams that answered
AnswerLog(k) ==
    IF ExampleSols(k) = {} THEN <<TextLine(unsatisfiable)>>
    ELSE [q \in 1..P(k) |-> PeriodLine(FoundSol(k)[q])] \o <<MarkerLine("----------")>>

\* the record of the solve of (k, key): SAT solve_instance and the record
\* save_solution_to_json makes of it
sat_batch_record(k, raised, time_limit) ==
    sat_save_solution(k,
        IF raised
        THEN [time |-> Seconds(time_limit), feasible |-> FALSE, schedule |-> None]
        ELSE IF ExampleSols(k) = {} THEN sat_solve("unsat", 400, <<>>)
        ELSE sat_solve("sat", 400, WeeksOf(k, FoundSol(k))))

\* SMT solve_instance and the record save_solution_to_json makes of it
smt_batch_record(k, key, raised, time_limit) ==
    IF IsOptConfig(key)
    THEN smt_save_opt(k,
            IF raised
            THEN [time |-> Seconds(time_limit), optimal |-> FALSE,
                  obj |-> None, schedule |-> None]
            ELSE IF ExampleSols(k) = {}
            THEN smt_model_optimized(None, None, 400, 800, time_limit)
            ELSE smt_model_optimized(Some(BreaksOf(k, FoundSol(k))),
                                     Some(WeeksOf(k, FoundSol(k))),
                                     400, 1200, time_limit))
    ELSE smt_save_satisf(k,
            IF raised
            THEN [time |-> Seconds(time_limit), feasible |-> FALSE,
                  schedule |-> None]
            ELSE IF ExampleSols(k) = {}
            THEN smt_model_satisfiable("unsat", 400, time_limit, <<>>)
            ELSE smt_model_satisfiable("sat", 400, time_limit,
                                       WeeksOf(k, FoundSol(k))))

\* MILP solve_instance
mip_batch_record(k, key, raised, time_limit) ==
    IF raised THEN mip_solve_exception(400)
    ELSE IF ExampleSols(k) = {}
    THEN mip_solve_instance(k, IsOptConfig(key), time_limit, "Infeasible",
                            FALSE, EmptySol(k), 400)
    ELSE mip_solve_instance(k, IsOptConfig(key), time_limit, "Optimal", TRUE,
                            FoundSol(k), 400)

\* CP solve_instance_direct
cp_batch_record(k, key, raised, time_limit) ==
    IF raised THEN cp_run_exception
    ELSE cp_run_result(parse_minizinc_output(AnswerLog(k), IsOptConfig(key), k),
                       FALSE, 400, time_limit)

\* the collection keeping the last result alone
cp_collect_last(all_results, key, rec) == [c \in {key} |-> rec]

\* CP_STS.py, line 208: all_results[solver_name] = result
cp_collect(all_results, key, rec) ==
    dict_update(all_results, [c \in {key} |-> rec])

InitBatch ==
    /\ CardIdle
    /\ SchedIdle
    /\ CertIdle
    /\ \E st \in {"missing", "object", "unreadable"} :
         store = [k \in {BatchInstances[j] : j \in 1..Len(BatchInstances)} |->
                     [state |-> st, data |-> EmptyDict]]
    /\ first_store = store
    /\ saves = <<>>
    /\ savers = <<>>
    /\ call = <<>>
    /\ \E driver \in {"sat", "cp", "smt", "mip"} :
         \E tl \in IF driver = "sat" THEN TimeLimits ELSE {300} :
            batch = [driver |-> driver, time_limit |-> tl, pc |-> "loop",
                     i |-> 1, c |-> 1, all_results |-> EmptyDict,
                     solved |-> <<>>, failures |-> 0]

\* the locals after the iteration of the inner loop for configuration c of
\* instance i that solved the pair with record rec
batch_step(b, key, rec, raised) ==
    LET last_config == b.c = Len(ConfigKeys(b.driver))
        last_instance == b.i = Len(BatchInstances)
    IN  [b EXCEPT
           !.solved = Append(@, [n |-> BatchInstances[b.i], key |-> key,
                                 record |-> rec, raised |-> raised]),
           !.failures = IF raised THEN @ + 1 ELSE @,
           !.c = IF last_config THEN 1 ELSE @ + 1,
           !.i = IF last_config /\ b.driver # "cp" THEN @ + 1 ELSE @,
           !.pc = IF last_config /\ b.driver = "cp" THEN "save"
                  ELSE IF last_config /\ last_instance THEN "done"
                  ELSE "loop"]

\* one iteration of the inner loop of the SAT auto mode, of SMT
\* solve_all_instances or of MILP solve_all_instances: the solve of the pair
\* and the save of its record
BatchSolveAndSave ==
    /\ batch # <<>> /\ batch.pc = "loop"
    /\ batch.driver \in {"sat", "smt", "mip"}
    /\ \E raised \in BOOLEAN :
         LET k == BatchInstances[batch.i]
             key == ConfigKeys(batch.driver)[batch.c]
             rec == IF batch.driver = "sat"
                    THEN sat_batch_record(k, raised, batch.time_limit)
                    ELSE IF batch.driver = "smt"
                    THEN smt_batch_record(k, key, raised, batch.time_limit)
                    ELSE mip_batch_record(k, key, raised, batch.time_limit)
         IN  /\ raised => batch.failures < MaxFailures
             /\ store' = [store EXCEPT
                            ![k] = save_solution_to_json(@, [c \in {key} |-> rec])]
             /\ batch' = batch_step(batch, key, rec, raised)
    /\ UNCHANGED <<first_store, saves, savers, call, cardVars, schedVars, certVars>>

\* CP solve_all_instances, lines 189-212: one iteration of the inner loop
CpBatchSolve ==
    /\ batch # <<>> /\ batch.pc = "loop"
    /\ batch.driver = "cp"
    /\ \E raised \in BOOLEAN :
         LET k == BatchInstances[batch.i]
             key == ConfigKeys("cp")[batch.c]
             rec == cp_batch_record(k, key, raised, batch.time_limit)
         IN  /\ raised => batch.failures < MaxFailures
             /\ batch' = [batch_step(batch, key, rec, raised) EXCEPT
                             !.all_results = cp_collect(@, key, rec)]
    /\ UNCHANGED <<store, first_store, saves, savers, call, cardVars, schedVars, certVars>>

\* CP solve_all_instances, lines 214-215 and 186: the save of all the results
\* of the instance, then the next instance
CpBatchSave ==
    /\ batch # <<>> /\ batch.pc = "save"
    /\ store' = [store EXCEPT ![BatchInstances[batch.i]] =
                    save_solution_to_json(@, batch.all_results)]
    /\ batch' = [batch EXCEPT
                   !.all_results = EmptyDict,
                   !.i = @ + 1,
                   !.pc = IF batch.i = Len(BatchInstances) THEN "done" ELSE "loop"]
    /\ UNCHANGED <<first_store, saves, savers, call, cardVars, schedVars, certVars>>

NextBatch ==
    \/ BatchSolveAndSave
    \/ CpBatchSolve
    \/ CpBatchSave

SpecBatch == InitBatch /\ [][NextBatch]_vars

\* the drivers run their loops to the end
FairBatch == SpecBatch /\ WF_vars(NextBatch)

(***************************************************************************)
(* The entry points and what they do with the team count they are given:   *)
(* the command-line drivers (SAT/STS_SAT_satisf.py, lines 343-351;         *)
(* SMT/smt_model.py, lines 154-164; MILP/mip_model.py, lines 232-242;      *)
(* CP/CP_STS.py, lines 248-256) and the model-building functions.          *)
(***************************************************************************)
\* the team counts given to the entry points are -MaxInvalid .. MaxTeams
MaxInvalid == 3

CliEntries == {"sat_cli", "smt_cli", "mip_cli", "cp_cli"}
FunctionEntries ==
    {"model_satisfiable_sat", "model_satisfiable", "model_optimized",
     "satisfiability_milp_model", "optimization_milp_model"}

\* `if args.teams % 2 != 0` of the drivers; the SAT driver tests the truth
\* of args.teams before, the others test that it is not None
cli_check(entry, k) ==
    IF entry = "sat_cli" /\ k = 0 THEN "help"
    ELSE IF k % 2 # 0 THEN "error"
    ELSE "solve"

\* the first statements of the model-building functions: the assert of
\* model_satisfiable_sat (line 181) and of the MILP builders
\* (MILP_Satisfiability.py, line 10); the SMT functions have none
function_check(entry, k) ==
    IF entry \in {"model_satisfiable", "model_optimized"} THEN "build"
    ELSE IF k % 2 # 0 THEN "error"
    ELSE "build"

\* the configuration key of a single run of a driver
CliKey(entry) ==
    IF entry = "sat_cli" THEN "sat_np"
    ELSE IF entry = "smt_cli" THEN "smt_satisf"
    ELSE IF entry = "mip_cli" THEN "mip_satisf_CBC"
    ELSE "chuffed_satisfiability_ch_base"

InitEntry ==
    /\ CardIdle
    /\ SchedIdle
    /\ CertIdle
    /\ \E entry \in CliEntries \cup FunctionEntries :
         \E k \in (0 - MaxInvalid)..MaxTeams :
           /\ call = [entry |-> entry, n |-> k, pc |-> "called"]
           /\ store = [j \in {k} |-> [state |-> "missing", data |-> EmptyDict]]
    /\ first_store = store
    /\ saves = <<>>
    /\ savers = <<>>
    /\ batch = <<>>

\* main of a driver up to the call of the solve
CliCheck ==
    /\ call # <<>> /\ call.pc = "called"
    /\ call.entry \in CliEntries
    /\ call' = [call EXCEPT !.pc = cli_check(call.entry, call.n)]
    /\ UNCHANGED <<store, first_store, saves, savers, batch, cardVars, schedVars, certVars>>

\* a model-building function up to the construction of the model
FunctionCheck ==
    /\ call # <<>> /\ call.pc = "called"
    /\ call.entry \in FunctionEntries
    /\ call' = [call EXCEPT !.pc = function_check(call.entry, call.n)]
    /\ UNCHANGED <<store, first_store, saves, savers, batch, cardVars, schedVars, certVars>>

\* the solve of the driver: the model function it calls passes the check of
\* the team count (it is even) and builds the model
CliSolve ==
    /\ call # <<>> /\ call.pc = "solve"
    /\ call' = [call EXCEPT !.pc = "build"]
    /\ UNCHANGED <<store, first_store, saves, savers, batch, cardVars, schedVars, certVars>>

\* the save of the driver after the solve returned, with an answer or with
\* the result of a failure
CliSave ==
    /\ call # <<>> /\ call.pc = "build"
    /\ call.entry \in CliEntries
    /\ \E raised \in BOOLEAN :
         LET key == CliKey(call.entry)
             rec == IF call.entry = "sat_cli"
                    THEN sat_batch_record(call.n, raised, 300)
                    ELSE IF call.entry = "smt_cli"
                    THEN smt_batch_record(call.n, key, raised, 300)
                    ELSE IF call.entry = "mip_cli"
                    THEN mip_batch_record(call.n, key, raised, 300)
                    ELSE cp_batch_record(call.n, key, raised, 300)
         IN  store' = [store EXCEPT
                          ![call.n] = save_solution_to_json(@, [c \in {key} |-> rec])]
    /\ call' = [call EXCEPT !.pc = "saved"]
    /\ UNCHANGED <<first_store, saves, savers, batch, cardVars, schedVars, certVars>>

NextEntry ==
    \/ CliCheck
    \/ FunctionCheck
    \/ CliSolve
    \/ CliSave

SpecEntry == InitEntry /\ [][NextEntry]_vars

(***************************************************************************)
(* CP: the logs of a solver that reports several solutions.                *)
(*                                                                         *)
(* A log is a heading, then the solution blocks the solver printed, each   *)
(* the Period lines of a schedule followed by a line of dashes, then the   *)
(* closing line of equal signs when the search was completed.              *)
(***************************************************************************)
\* the largest number of solution blocks of a log
MaxBlocks == 2

\* the lines a log can start with: none, free text, a line of matches with
\* no "Period" in front, a "Period p:" line with no match, and such a line
\* followed by a line of matches
Headings ==
    {<<>>,
     <<TextLine(<<"U", "N", "S", "A", "T">>)>>,
     <<MatchesLine(<< <<1, 2>> >>)>>,
     <<PeriodLine(<<>>)>>,
     <<PeriodLine(<<>>), MatchesLine(<< <<1, 2>> >>)>>}

\* one solution block
SolutionBlock(k, sol) ==
    [q \in 1..P(k) |-> PeriodLine(sol[q])] \o <<MarkerLine("----------")>>

\* the sequences of at most b solution blocks
RECURSIVE BlockSeqs(_, _)
BlockSeqs(k, b) ==
    IF b = 0 THEN {<<>>}
    ELSE BlockSeqs(k, b - 1)
            \cup {rest \o SolutionBlock(k, sol) :
                     rest \in BlockSeqs(k, b - 1), sol \in ExampleSols(k)}

\* the logs of a run of k teams
SolverLogs(k) ==
    {a \o b \o c :
        a \in Headings, b \in BlockSeqs(k, MaxBlocks),
        c \in {<<>>, <<MarkerLine("==========")>>}}

\* the arguments and the course of the runs: the log is the whole output, or
\* the partial output kept by the TimeoutExpired exception
ParseInputs ==
    UNION {[n : {k}, is_optimization : BOOLEAN, time_limit : {300},
            output : SolverLogs(k), expired : BOOLEAN, raised : {FALSE},
            execution_time : {400}] : k \in RunTeamCounts}

InitParse ==
    /\ CardIdle
    /\ SchedIdle
    /\ StoreIdle
    /\ pipeline = "cp"
    /\ input \in ParseInputs
    /\ pc = "start"
    /\ loop = <<>>
    /\ result = None
    /\ record = None

NextParse ==
    \/ CpParse
    \/ CpReturn

SpecParse == InitParse /\ [][NextParse]_vars

(***************************************************************************)
(* SAT: the variables of a Sat_Model (SAT/STS_SAT_satisf.py, lines 35-83). *)
(*                                                                         *)
(* z3 identifies a Boolean variable by its name: two calls of Bool with    *)
(* the same string give the same variable.  sat_model.symbols is the set   *)
(* of the names declared so far, sat_model.aux_made the number of calls of *)
(* Bool(f"y_{name}") made so far, sat_model.at the position in the list of *)
(* the exactly-one constraints that model_satisfiable_constraints adds.    *)
(***************************************************************************)
\* the largest number of teams of the Sat_Models whose variables are named
MaxNameTeams == 12

NameTeamCounts == {k \in 2..MaxNameTeams : k % 2 = 0}

\* lines 47-53: the names of the match, home and period variables
ModelVarNames(k) ==
    {match_var(w, i, j) : w \in Weeks(k), i \in Teams(k), j \in Teams(k)}
        \cup {home_var(w, i) : w \in Weeks(k), i \in Teams(k)}
        \cup {period_var(w, i, q) : w \in Weeks(k), i \in Teams(k), q \in Periods(k)}

\* lines 62-83: the exactly-one constraints in the order they are added,
\* each the number of its literals and its name
ExactlyOneCalls(k) ==
    [x \in 1..(W(k) * k) |->
        <<k - 1, team_week_name((x - 1) % k, (x - 1) \div k)>>]
    \o [x \in 1..Len(PairSeq(k)) |->
            <<W(k), match_name(PairSeq(k)[x][1], PairSeq(k)[x][2])>>]
    \o [x \in 1..(W(k) * k) |->
            <<P(k), period_name((x - 1) \div k, (x - 1) % k)>>]

\* Sat_Model.__init__ up to line 53
InitNames ==
    /\ bool_vals = <<>>
    /\ np_accepts = "unset"
    /\ he_accepts = "unset"
    /\ \E k \in NameTeamCounts : \E enc \in Encodings :
          sat_model = [n |-> k, encoding |-> enc, at |-> 1,
                       symbols |-> ModelVarNames(k), aux_made |-> 0]
    /\ SchedIdle
    /\ CertIdle
    /\ StoreIdle

\* self.s.add(self.exactly_one(..., name=...)): the next exactly-one
\* constraint is built; the compact encoding declares its auxiliaries
AddExactlyOne ==
    /\ sat_model # <<>>
    /\ sat_model.at <= Len(ExactlyOneCalls(sat_model.n))
    /\ LET u == ExactlyOneCalls(sat_model.n)[sat_model.at]
       IN  sat_model' =
              IF sat_model.encoding = "he"
              THEN [sat_model EXCEPT
                      !.at = @ + 1,
                      !.symbols = @ \cup AuxOf(at_most_one_he(InputVars(u[1]), u[2])),
                      !.aux_made = @ + he_bool_calls(u[1])]
              ELSE [sat_model EXCEPT !.at = @ + 1]
    /\ UNCHANGED <<bool_vals, np_accepts, he_accepts, schedVars, certVars, storeVars>>

NextNames == AddExactlyOne

SpecNames == InitNames /\ [][NextNames]_vars

(***************************************************************************)
(* SMT: the improvement loop of model_optimized with the solver as an      *)
(* oracle (SMT/STS_SMT_opt.py, lines 111-176).                             *)
(*                                                                         *)
(* The constraint set is given by input.feasible, the set of the values of *)
(* obj over its solutions.  A check answers sat with any solution of the   *)
(* constraints added so far, unsat when they have none, or unknown.  A     *)
(* model is kept as the value of obj in it.                                *)
(***************************************************************************)
\* the largest number of objective values of the constraint sets, beside
\* the set with every value of the range
MaxObjValues == 2

\* lines 117 and 120: the values of obj the bounds allow
ObjRange(k) ==
    (IF k - 2 > 0 THEN k - 2 ELSE 0)..((k - 2) * (k - 1))

\* the sets of objective values of the constraint sets of k teams
FeasibleSets(k) ==
    {ObjRange(k)}
        \cup {X \in SUBSET ObjRange(k) : Cardinality(X) <= MaxObjValues}

InitLoop ==
    /\ CardIdle
    /\ SchedIdle
    /\ StoreIdle
    /\ pipeline = "smt_opt"
    /\ \E k \in TeamCounts : \E X \in FeasibleSets(k) :
          input = [n |-> k, time_limit |-> 60, begin |-> 400, feasible |-> X]
    /\ pc = "start"
    /\ loop = <<>>
    /\ result = None
    /\ record = None

\* a plausible slip of line 155: obj <= current_obj is added
Solutions_not_below(feasible, bound) ==
    {v \in feasible : bound # None => v <= bound[1]}

\* the solutions of the constraints added so far: those of the model whose
\* obj is below the bound of the last obj < current_obj
Solutions(feasible, bound) ==
    {v \in feasible : bound # None => v < bound[1]}

\* model_optimized, lines 130-165: one iteration of the loop, the check
\* being an oracle
SmtOptOracleCheck ==
    /\ pipeline = "smt_opt" /\ pc = "loop"
    /\ loop.now < Seconds(input.time_limit)
    /\ LET remaining == Seconds(input.time_limit) - loop.now
       IN  \/ \E d \in {400, remaining} :
                \E current_obj \in Solutions(input.feasible, loop.bound) :
                      /\ d <= remaining
                      /\ loop' = [iteration |-> loop.iteration + 1,
                                  best_obj |->
                                     IF loop.best_obj = None
                                           \/ current_obj < loop.best_obj[1]
                                     THEN Some(current_obj) ELSE loop.best_obj,
                                  best_model |->
                                     IF loop.best_obj = None
                                           \/ current_obj < loop.best_obj[1]
                                     THEN Some(current_obj)
                                     ELSE loop.best_model,
                                  now |-> loop.now + d,
                                  bound |-> Some(current_obj),
                                  result_check |-> "sat"]
                      /\ pc' = "loop"
           \/ /\ Solutions(input.feasible, loop.bound) = {}
              /\ loop' = [loop EXCEPT !.iteration = @ + 1, !.now = @ + 400,
                                      !.result_check = "unsat"]
              /\ pc' = "after_loop"
           \/ /\ loop' = [loop EXCEPT !.iteration = @ + 1,
                                      !.now = Seconds(input.time_limit),
                                      !.result_check = "unknown"]
              /\ pc' = "after_loop"
    /\ UNCHANGED <<pipeline, input, result, record, cardVars, schedVars, storeVars>>

NextLoop ==
    \/ SmtOptStart
    \/ SmtOptOracleCheck
    \/ SmtOptLoopExit
    \/ SmtOptReturn

SpecLoop == InitLoop /\ [][NextLoop]_vars

(***************************************************************************)
(* MILP: the objective of the optimization models                          *)
(* (MILP/MILP_Optimization_SB.py, lines 107-120, optimization_milp_model,  *)
(* kind "mip_opt"; MILP/MIILP_Satisfiability.py, lines 92-103,             *)
(* build_mip_optimization_model, kind "mip_opt_free").                     *)
(*                                                                         *)
(* The solver goes from one solution of the constraint set to one of a     *)
(* smaller objective until there is none: that one is optimal.  The        *)
(* solutions are taken among the example schedules, each with one match or *)
(* none turned round, with values of the binaries breaks[w][t].  Both      *)
(* models hold the constraint objective >= n - 2, and the examples have    *)
(* solutions of objective n - 2: a solution that is the best among them is *)
(* a best one of the model.                                                *)
(***************************************************************************)
\* a periods x weeks matrix with the match of period q, week w turned round
FlipCell(sol, q, w) == [sol EXCEPT ![q][w] = <<@[2], @[1]>>]

\* the example schedules, each with one match or none turned round
ExampleOrientations(k) ==
    ExampleSols(k)
        \cup {FlipCell(sol, q, w) :
                 sol \in ExampleSols(k), q \in 1..P(k), w \in 1..W(k)}

\* the values of the opp and of the period variables of a periods x weeks
\* matrix
OppOf(k, sol) ==
    [w \in Weeks(k) |->
        [t \in Teams(k) |->
            {j \in Teams(k) \ {t} :
                \E q \in 1..P(k) :
                    {sol[q][w + 1][1], sol[q][w + 1][2]} = {t + 1, j + 1}}]]
PeriodOf(k, sol) ==
    [w \in Weeks(k) |->
        [t \in Teams(k) |->
            {q \in Periods(k) :
                t + 1 \in {sol[q + 1][w + 1][1], sol[q + 1][w + 1][2]}}]]

\* values of the binaries breaks[w][t] under the homes hh: 1 where the home
\* status is kept, 1 where the team is at home twice, 1 where it is away
\* twice, 0 everywhere, 1 everywhere, and 1 where the status is kept and in
\* one more place of the first two weeks
BreakValues(k, hh) ==
    LET cells == {w \in {0} : W(k) >= 2} \X Teams(k)
        both == [w \in 0..(W(k) - 2) |->
                    [t \in Teams(k) |-> Bin(hh[w][t] = hh[w + 1][t])]]
    IN  {both,
         [w \in 0..(W(k) - 2) |->
             [t \in Teams(k) |-> Bin(hh[w][t] = 1 /\ hh[w + 1][t] = 1)]],
         [w \in 0..(W(k) - 2) |->
             [t \in Teams(k) |-> Bin(hh[w][t] = 0 /\ hh[w + 1][t] = 0)]],
         [w \in 0..(W(k) - 2) |-> [t \in Teams(k) |-> 0]],
         [w \in 0..(W(k) - 2) |-> [t \in Teams(k) |-> 1]]}
        \cup {[both EXCEPT ![c[1]][c[2]] = 1] : c \in cells}

\* lpSum(breaks[w][t] for w in range(W - 1) for t in Teams)
break_sum(k, bb) ==
    Cardinality({c \in (0..(W(k) - 2)) \X Teams(k) : bb[c[1]][c[2]] = 1})

\* MILP_Optimization_SB.py, lines 107-120: the constraints on the binaries
\* breaks[w][t] and the bounds on the objective
optimization_milp_breaks(k, hh, bb) ==
    /\ \A w \in 0..(W(k) - 2) : \A t \in Teams(k) :
          /\ bb[w][t] >= hh[w][t] + hh[w + 1][t] - 1
          /\ bb[w][t] >= 1 - hh[w][t] - hh[w + 1][t]
    /\ break_sum(k, bb) >= k - 2
    /\ break_sum(k, bb) <= (k - 1) * (k - 2)

\* MIILP_Satisfiability.py, lines 92-103: the constraints on the binaries
\* breaks[w][t] and the lower bound on the objective
build_mip_optimization_breaks(k, hh, bb) ==
    /\ \A w \in 0..(W(k) - 2) : \A t \in Teams(k) :
          /\ hh[w][t] + hh[w + 1][t] - 2 * bb[w][t] <= 1
          /\ hh[w][t] + hh[w + 1][t] - 2 * bb[w][t] >= 0
    /\ break_sum(k, bb) >= k - 2

\* the constraint set of an optimization model under the assignment c
mip_opt_constraints(kd, k, c) ==
    IF kd = "mip_opt"
    THEN /\ mip_opp_constraints(k, TRUE, TRUE, c.opp)
         /\ mip_period_constraints(k, TRUE, TRUE, c.opp, c.period)
         /\ mip_home_constraints(k, TRUE, TRUE, c.opp, c.home)
         /\ optimization_milp_breaks(k, c.home, c.breaks)
    ELSE /\ mip_opp_constraints(k, FALSE, FALSE, c.opp)
         /\ mip_period_constraints(k, FALSE, FALSE, c.opp, c.period)
         /\ mip_home_constraints(k, FALSE, FALSE, c.opp, c.home)
         /\ build_mip_optimization_breaks(k, c.home, c.breaks)

\* the solutions of an optimization model among the examples
MipOptSolutions(kd, k) ==
    {c \in UNION {[opp : {OppOf(k, sol)}, period : {PeriodOf(k, sol)},
                   home : {HomeOf(k, sol)},
                   breaks : BreakValues(k, HomeOf(k, sol))] :
                     sol \in ExampleOrientations(k)} :
        mip_opt_constraints(kd, k, c)}

InitObjective ==
    /\ CardIdle
    /\ CertIdle
    /\ StoreIdle
    /\ \E kd \in {"mip_opt", "mip_opt_free"} :
          \E k \in {x \in TeamCounts : ExampleSols(x) # {}} :
              /\ kind = kd
              /\ n = k
              /\ symmetry = (kd = "mip_opt")
              /\ models = MipOptSolutions(kd, k)
    /\ status = "built"
    /\ opp = <<>>
    /\ period = <<>>
    /\ home = <<>>
    /\ schedule = <<>>
    /\ sol_matrix = <<>>
    /\ total_breaks = -1
    /\ breaks = <<>>
    /\ accepts = <<>>

\* model.solve(solver): the solver finds a solution, or one of a smaller
\* objective than the one it holds
MipOptImprove ==
    /\ status \in {"built", "feasible"}
    /\ \E c \in models :
          /\ status = "feasible" => break_sum(n, c.breaks) < break_sum(n, breaks)
          /\ opp' = c.opp
          /\ period' = c.period
          /\ home' = c.home
          /\ breaks' = c.breaks
    /\ status' = "feasible"
    /\ UNCHANGED <<accepts, n, kind, symmetry, models, schedule, sol_matrix, total_breaks,
                   cardVars, certVars, storeVars>>

\* model.solve(solver) ends with the status Optimal: no solution has a
\* smaller objective; then the schedule is extracted and the breaks are
\* counted from the home variables
MipOptOptimal ==
    /\ status = "feasible"
    /\ \A c \in models : break_sum(n, c.breaks) >= break_sum(n, breaks)
    /\ status' = "optimal"
    /\ sol_matrix' = extract_schedule_from_solution(n, opp, home, period)
    /\ total_breaks' = calculate_breaks(n, home)
    /\ UNCHANGED <<accepts, n, kind, symmetry, opp, period, home, breaks, models, schedule,
                   cardVars, certVars, storeVars>>

NextObjective ==
    \/ MipOptImprove
    \/ MipOptOptimal

SpecObjective == InitObjective /\ [][NextObjective]_vars

(***************************************************************************)
(* The three formulations under one choice of opponent, period and home    *)
(* status per (week, team)                                                 *)
(* (SAT/STS_SAT_satisf.py, lines 58-111; SMT/STS_SMT_satisf.py, lines      *)
(* 32-82; MILP/MILP_Satisfiability.py, lines 43-92).                       *)
(*                                                                         *)
(* A choice gives every team of every week an opponent among the teams, a  *)
(* period among the periods and a home status.  It is the value of the     *)
(* variables of the SMT model as it stands.  In the MILP model             *)
(* opp[w][t][j] = 1 for the opponent j of t, period[w][t][p] = 1 for the   *)
(* period p of t and home[w][t] = 1 for a team at home.  The SAT model has *)
(* one variable match_w_i_j for the two teams i < j: it is true when each  *)
(* is the opponent of the other; period_w_t_p and home_w_t are as in the   *)
(* MILP model.                                                             *)
(***************************************************************************)
\* the models without symmetry breaking
Formulations == {"sat_np", "sat_he", "smt", "mip"}

ChoiceAsSat(k, o, p, h) ==
    [opp    |-> [w \in Weeks(k) |->
                    {c \in Pairs(k) : o[w][c[1]] = c[2] /\ o[w][c[2]] = c[1]}],
     period |-> [w \in Weeks(k) |-> [t \in Teams(k) |-> {p[w][t]}]],
     home   |-> h]
ChoiceAsMip(k, o, p, h) ==
    [opp    |-> [w \in Weeks(k) |-> [t \in Teams(k) |-> {o[w][t]}]],
     period |-> [w \in Weeks(k) |-> [t \in Teams(k) |-> {p[w][t]}]],
     home   |-> [w \in Weeks(k) |-> [t \in Teams(k) |-> Bin(h[w][t])]]]

\* whether the constraints of the model kd on the opponents, on the periods
\* and on the homes hold under the choice
constraints_hold(kd, k, o, p, h) ==
    IF Family(kd) = "sat"
    THEN LET c == ChoiceAsSat(k, o, p, h)
         IN  [opp    |-> sat_opp_constraints(k, Encoding(kd), FALSE, c.opp),
              period |-> sat_period_constraints(k, Encoding(kd), c.opp, c.period),
              home   |-> sat_home_constraints(k, c.opp, c.home)]
    ELSE IF Family(kd) = "smt"
    THEN [opp    |-> smt_opp_constraints(k, FALSE, FALSE, o),
          period |-> smt_period_constraints(k, o, p),
          home   |-> smt_home_constraints(k, FALSE, FALSE, o, h)]
    ELSE LET c == ChoiceAsMip(k, o, p, h)
         IN  [opp    |-> mip_opp_constraints(k, FALSE, FALSE, c.opp),
              period |-> mip_period_constraints(k, FALSE, FALSE, c.opp, c.period),
              home   |-> mip_home_constraints(k, FALSE, FALSE, c.opp, c.home)]

\* a round robin of 4 teams, periods x weeks (the model of 4 teams has no
\* solution: team 1 is three times in the first period)
RoundRobin4 ==
    << << <<1, 2>>, <<1, 3>>, <<1, 4>> >>,
       << <<3, 4>>, <<4, 2>>, <<2, 3>> >> >>

\* the matrices the choices are made from
BaseSols(k) == IF k = 4 THEN {RoundRobin4} ELSE ExampleSols(k)

\* a matrix with the matches of the periods q and r of week w exchanged, and
\* with the matches of week v in the place of those of week w
SwapPeriods(sol, w, q, r) ==
    [sol EXCEPT ![q][w] = sol[r][w], ![r][w] = sol[q][w]]
CopyWeek(k, sol, w, v) ==
    [q \in 1..P(k) |-> [sol[q] EXCEPT ![w] = sol[q][v]]]

\* the base matrices and the matrices one step from them
EditedSols(k) ==
    BaseSols(k)
        \cup {FlipCell(sol, q, w) :
                 sol \in BaseSols(k), q \in 1..P(k), w \in 1..W(k)}
        \cup UNION {{SwapPeriods(sol, w, q, r) : sol \in BaseSols(k), w \in 1..W(k)} :
                      q \in 1..P(k), r \in 1..P(k)}
        \cup UNION {{CopyWeek(k, sol, w, v) : sol \in BaseSols(k), w \in 1..W(k)} :
                      v \in 1..W(k)}

\* the choice a matrix stands for
ChoiceOf(k, sol) ==
    [opp    |-> [w \in Weeks(k) |->
                    [t \in Teams(k) |->
                        CHOOSE j \in Teams(k) : j \in OppOf(k, sol)[w][t]]],
     period |-> [w \in Weeks(k) |->
                    [t \in Teams(k) |->
                        CHOOSE q \in Periods(k) : q \in PeriodOf(k, sol)[w][t]]],
     home   |-> [w \in Weeks(k) |->
                    [t \in Teams(k) |-> HomeOf(k, sol)[w][t] = 1]]]

\* the choices one value away from the choice c
OneValueAway(k, c) ==
    UNION {{[c EXCEPT !.opp[w][t] = j] : j \in Teams(k)}
               \cup {[c EXCEPT !.period[w][t] = q] : q \in Periods(k)}
               \cup {[c EXCEPT !.home[w][t] = ~@]} :
              w \in Weeks(k), t \in Teams(k)}

\* the choices of k teams: all of them for 2 teams; for more teams those of
\* the matrices and those one value away from a base matrix
Choices(k) ==
    IF k = 2
    THEN [opp : [Weeks(k) -> [Teams(k) -> Teams(k)]],
          period : [Weeks(k) -> [Teams(k) -> Periods(k)]],
          home : [Weeks(k) -> [Teams(k) -> BOOLEAN]]]
    ELSE {ChoiceOf(k, sol) : sol \in EditedSols(k)}
            \cup UNION {OneValueAway(k, ChoiceOf(k, sol)) : sol \in BaseSols(k)}

InitChoice ==
    /\ CardIdle
    /\ CertIdle
    /\ StoreIdle
    /\ kind = "all"
    /\ symmetry = FALSE
    /\ n \in TeamCounts
    /\ \E c \in Choices(n) :
          /\ opp = c.opp
          /\ period = c.period
          /\ home = c.home
    /\ models = {}
    /\ status = "built"
    /\ schedule = <<>>
    /\ sol_matrix = <<>>
    /\ total_breaks = -1
    /\ breaks = <<>>
    /\ accepts = <<>>

\* the three constraint sets are evaluated under the choice
CheckFormulations ==
    /\ status = "built"
    /\ kind = "all"
    /\ accepts' = [kd \in Formulations |-> constraints_hold(kd, n, opp, period, home)]
    /\ status' = "checked"
    /\ UNCHANGED <<n, kind, symmetry, opp, period, home, models, schedule,
                   sol_matrix, total_breaks, breaks, cardVars, certVars, storeVars>>

NextChoice == CheckFormulations

SpecChoice == InitChoice /\ [][NextChoice]_vars

(***************************************************************************)
(* Properties of the models and of the schedules extracted from them.      *)
(***************************************************************************)
\* the check answered sat: opp, period and home hold its model
HasModel == status \in {"sat", "saved"}

\* teams i and j play each other under the opponents o of a week
Plays(kd, o, i, j) ==
    IF Family(kd) = "sat"
    THEN (IF i < j THEN <<i, j>> ELSE <<j, i>>) \in o
    ELSE Met(kd, o, i, j) /\ Met(kd, o, j, i)

\* team t is assigned period q under the periods p of a week
InPeriod(kd, p, t, q) == IF Family(kd) = "smt" THEN p[t] = q ELSE q \in p[t]

\* the teams of period q under the periods p of a week
TeamsIn(kd, k, p, q) == {t \in Teams(k) : InPeriod(kd, p, t, q)}

\* the weeks in which team t is assigned period q
WeeksIn(kd, k, pp, t, q) == {w \in Weeks(k) : InPeriod(kd, pp[w], t, q)}

C3_SymmetryKeepsSatisfiable ==
    (symmetry /\ status = "unsat") => ~has_model(kind, n, FALSE, <<>>, 0)

\* C3 witness: the SMT optimization model for 6 teams, whose constraints
\* without symmetry breaking have a model, answered sat with the first match
\* fixed and the weeks ordered
C3_Witness ==
    /\ symmetry
    /\ kind = "smt_opt"
    /\ n = 6
    /\ status = "sat"
    /\ opp[0][0] = 1
    /\ has_model(kind, n, FALSE, <<>>, 0)

\* a cell of the periods x weeks matrix is a [home, away] pair of the model:
\* two teams that play each other in week w in period q, the first at home
ValidCell(cell, w, q) ==
    /\ Len(cell) = 2
    /\ cell[1] \in 1..n
    /\ cell[2] \in 1..n
    /\ cell[1] # cell[2]
    /\ Plays(kind, opp[w], cell[1] - 1, cell[2] - 1)
    /\ AtHome(kind, home[w], cell[1] - 1)
    /\ InPeriod(kind, period[w], cell[1] - 1, q)

\* the periods x weeks matrix has n/2 rows of n-1 valid cells
MatrixOk ==
    /\ Len(sol_matrix) = P(n)
    /\ \A q \in 1..P(n) :
          /\ Len(sol_matrix[q]) = W(n)
          /\ \A w \in 1..W(n) : ValidCell(sol_matrix[q][w], w - 1, q - 1)

\* C4 as stated: for 4 teams the check answers sat, also with the anchor and
\* week-ordering rules, and the extraction yields 2 periods x 3 weeks of
\* valid [home, away] cells.
C4_FourTeamsHaveSchedule ==
    (n = 4 /\ status # "built") =>
        /\ HasModel
        /\ status = "saved" => MatrixOk

\* C4 amended: for 4 teams no assignment satisfies the constraints, with or
\* without the symmetry-breaking rules, and nothing is extracted; for 2 and
\* 6 teams the check answers sat, also with the anchor and week-ordering
\* rules, and the extraction yields n/2 periods x (n-1) weeks of valid
\* [home, away] cells.
C4_FourTeamsUnsatOthersExtract ==
    status # "built" =>
        /\ n = 4 => /\ status = "unsat"
                    /\ schedule = <<>>
                    /\ sol_matrix = <<>>
        /\ n # 4 => /\ HasModel
                    /\ status = "saved" => MatrixOk

\* C4 witness: the SMT check for 4 teams with the week ordering answered
\* unsat
C4_Witness ==
    /\ n = 4
    /\ kind = "smt"
    /\ symmetry
    /\ status = "unsat"

\* the home values of a model as the 0/1 values calculate_breaks reads
HomeBits(kd, k, hh) ==
    [w \in Weeks(k) |-> [t \in Teams(k) |-> IF AtHome(kd, hh[w], t) THEN 1 ELSE 0]]

\* the home values of a model as the Booleans the break loop reads
HomeBools(kd, k, hh) ==
    [w \in Weeks(k) |-> [t \in Teams(k) |-> AtHome(kd, hh[w], t)]]

\* the matches of the extracted schedule, as <<week, home, away>>
ExtractedMatches ==
    IF Family(kind) = "mip"
    THEN {<<c[2], sol_matrix[c[1]][c[2]][1], sol_matrix[c[1]][c[2]][2]>> :
             c \in {d \in (1..P(n)) \X (1..W(n)) : sol_matrix[d[1]][d[2]] # None}}
    ELSE UNION {{<<w, schedule[w][i].home_team + 1, schedule[w][i].away_team + 1>> :
                    i \in 1..Len(schedule[w])} : w \in 1..W(n)}

\* C5: the breaks of every model, as counted by calculate_breaks and by the
\* break loop of model_satisfiable, are at least n - 2, and so is the total
\* a run reports; a schedule for 6 teams has exactly 15 matches, one per
\* pair of teams.
C5_BreaksAtLeastOptimum ==
    HasModel =>
        /\ calculate_breaks(n, HomeBits(kind, n, home)) >= n - 2
        /\ SumTo(smt_break_loop(n, HomeBools(kind, n, home)), n) >= n - 2
        /\ total_breaks # -1 => total_breaks >= n - 2
        /\ n = 6 =>
              /\ Cardinality(ExtractedMatches) = 15
              /\ Cardinality({{m[2], m[3]} : m \in ExtractedMatches}) = 15

\* C5 witness: a model of the SMT constraint set for 6 teams whose break loop
\* counted exactly 4 breaks
C5_Witness ==
    /\ kind = "smt"
    /\ n = 6
    /\ status = "sat"
    /\ total_breaks = 4

\* the ordered pairs extract_schedule_from_solution adds to `pairs` in week w
AddedPairs(w) ==
    {c \in Teams(n) \X Teams(n) :
        mip_pair_added(opp[w], period[w], c[1], c[2])}

\* the unordered pairs of opponents of week w in the model
OpponentPairs(w) ==
    {{c[1], c[2]} : c \in {d \in Pairs(n) : Plays(kind, opp[w], d[1], d[2])}}

\* C18: for every model, the SMT extractors (the `printed` set) and the MILP
\* extractor (the `pairs` set) emit each unordered pair of opponents of a
\* week exactly once, so every week yields n/2 matches although the model
\* holds both (i, j) and (j, i).
C18_EachPairEmittedOnce ==
    /\ (Family(kind) = "smt" /\ HasModel) =>
          \A w \in 1..W(n) :
              /\ Len(schedule[w]) = P(n)
              /\ \A pr \in OpponentPairs(w - 1) :
                    Cardinality({x \in 1..Len(schedule[w]) :
                        {schedule[w][x].home_team, schedule[w][x].away_team} = pr}) = 1
              /\ \A x \in 1..Len(schedule[w]) :
                    {schedule[w][x].home_team, schedule[w][x].away_team}
                        \in OpponentPairs(w - 1)
    /\ (Family(kind) = "mip" /\ HasModel) =>
          \A w \in Weeks(n) :
              /\ Cardinality(AddedPairs(w)) = P(n)
              /\ \A pr \in OpponentPairs(w) :
                    Cardinality({c \in AddedPairs(w) : {c[1], c[2]} = pr}) = 1
              /\ \A c \in AddedPairs(w) : {c[1], c[2]} \in OpponentPairs(w)

\* C18 witness: a MILP model for 6 teams in which team 0 has opponent 1 and
\* team 1 has opponent 0 in the first week, and (0, 1) alone was added
C18_Witness ==
    /\ kind = "mip"
    /\ n = 6
    /\ status = "saved"
    /\ 1 \in opp[0][0]
    /\ 0 \in opp[0][1]
    /\ <<0, 1>> \in AddedPairs(0)
    /\ <<1, 0>> \notin AddedPairs(0)

\* the matches an extractor emitted for week w (0-indexed), as records of
\* 0-indexed teams and period
EmittedMatches(w) ==
    IF Family(kind) = "mip"
    THEN {[home_team |-> sol_matrix[q][w + 1][1] - 1,
           away_team |-> sol_matrix[q][w + 1][2] - 1,
           period    |-> q - 1] :
             q \in {r \in 1..P(n) : sol_matrix[r][w + 1] # None}}
    ELSE {schedule[w + 1][x] : x \in 1..Len(schedule[w + 1])}

\* C19: for every model and every match an extractor emits, the team
\* recorded as home is the one of the two opponents whose home variable is
\* true in that week, the team recorded as away the one whose home variable
\* is false, and the recorded period is the period the model assigns to both
\* teams in that week.
C19_MatchKeepsHomeAndPeriod ==
    HasModel =>
        \A w \in Weeks(n) :
            \A m \in EmittedMatches(w) :
                /\ Plays(kind, opp[w], m.home_team, m.away_team)
                /\ AtHome(kind, home[w], m.home_team)
                /\ ~AtHome(kind, home[w], m.away_team)
                /\ InPeriod(kind, period[w], m.home_team, m.period)
                /\ InPeriod(kind, period[w], m.away_team, m.period)

\* C19 witness: a SAT model for 6 teams in which the smaller team of a pair
\* of the first week plays away, and the match was emitted with the larger
\* team at home
C19_Witness ==
    /\ Family(kind) = "sat"
    /\ n = 6
    /\ status = "sat"
    /\ \E m \in EmittedMatches(0) :
          /\ m.home_team > m.away_team
          /\ ~AtHome(kind, home[0], m.away_team)

\* C20: for every feasible result of the SAT, SMT and MILP pipelines the
\* persisted sol is a matrix of P = n/2 rows of W = n - 1 entries each, no
\* entry is null, entry w of row p is the match the model places in period p
\* of week w, every team number is in 1..n (the 0-indexed team plus one), and
\* the matrix holds n(n-1)/2 matches.
C20_SolIsPeriodsByWeeks ==
    status = "saved" =>
        /\ Len(sol_matrix) = P(n)
        /\ \A q \in 1..P(n) :
              /\ Len(sol_matrix[q]) = W(n)
              /\ \A w \in 1..W(n) :
                    LET cell == sol_matrix[q][w]
                    IN  /\ cell # None
                        /\ cell[1] \in 1..n /\ cell[2] \in 1..n
                        /\ Plays(kind, opp[w - 1], cell[1] - 1, cell[2] - 1)
                        /\ InPeriod(kind, period[w - 1], cell[1] - 1, q - 1)
                        /\ InPeriod(kind, period[w - 1], cell[2] - 1, q - 1)
        /\ Cardinality({<<q, w>> : q \in 1..P(n), w \in 1..W(n)})
              = (n * (n - 1)) \div 2
        /\ Cardinality({{sol_matrix[c[1]][c[2]][1], sol_matrix[c[1]][c[2]][2]} :
                           c \in (1..P(n)) \X (1..W(n))}) = (n * (n - 1)) \div 2

\* C20 witness: the matrix of a SAT result for 6 teams, 3 rows of 5 matches
C20_Witness ==
    /\ Family(kind) = "sat"
    /\ n = 6
    /\ status = "saved"
    /\ Len(sol_matrix) = 3
    /\ \A q \in 1..3 : Len(sol_matrix[q]) = 5
    /\ \A q \in 1..3 : \A w \in 1..5 : sol_matrix[q][w] # None

\* the first match is the anchored one: team 0 meets team 1 in week 0
FirstMatchIsZeroOne == Plays(kind, opp[0], 0, 1)

\* team 0 is at home in week 0
FirstMatchAtHome == AtHome(kind, home[0], 0)

\* teams 0 and 1 are in period 0 in week 0
FirstMatchInFirstPeriod ==
    /\ InPeriod(kind, period[0], 0, 0)
    /\ InPeriod(kind, period[0], 1, 0)

\* C22 as stated: in every solution of a model built with symmetry breaking,
\* the week-0 match of team 0 is against team 1, team 0 is at home in week
\* 0, and both teams are in period 0.
C22_FirstMatchAnchored ==
    (HasModel /\ symmetry) =>
        /\ FirstMatchIsZeroOne
        /\ FirstMatchAtHome
        /\ FirstMatchInFirstPeriod

\* C22, amended: with symmetry breaking team 0 meets team 1 in week 0 in
\* every model; team 0 is at home in week 0 in the SMT and the MILP
\* optimization models; teams 0 and 1 are in period 0, and team 1 is away,
\* in the MILP optimization model.
C22_FirstMatchAnchoredWhereFixed ==
    (HasModel /\ symmetry) =>
        /\ FirstMatchIsZeroOne
        /\ IsOpt(kind) => FirstMatchAtHome
        /\ kind = "mip_opt" =>
              /\ FirstMatchInFirstPeriod
              /\ ~AtHome(kind, home[0], 1)

\* C22 witness: a solution of the SMT optimization model of 6 teams with
\* symmetry breaking, whose first match is team 0 at home against team 1,
\* in a period other than period 0
C22_Witness ==
    /\ kind = "smt_opt"
    /\ n = 6
    /\ symmetry
    /\ HasModel
    /\ FirstMatchIsZeroOne
    /\ FirstMatchAtHome
    /\ ~InPeriod(kind, period[0], 0, 0)

\* the opponents of a MILP model written as the arrays of the SMT model and
\* as the sets of matches i < j of the SAT model
MipAsSmt(k, oo) ==
    [w \in Weeks(k) |-> [t \in Teams(k) |-> CHOOSE j \in Teams(k) : j \in oo[w][t]]]
MipAsSat(k, oo) ==
    [w \in Weeks(k) |-> {c \in Pairs(k) : c[2] \in oo[w][c[1]]}]

\* the opponent of team 0 is strictly increasing from each week to the next
\* in the opponents oo of a MILP model
ZeroOppIncreasing(k, oo) ==
    \A w \in 1..(W(k) - 1) :
        \A a \in oo[w - 1][0] : \A b \in oo[w][0] : b > a

\* C23: in every solution of a model with the week-ordering rule team 0
\* plays team w + 1 in week w; and the linear form of the MILP model accepts,
\* together with the round-robin constraints, exactly the opponent sequences
\* that the strict-increase form of the SAT and SMT models accepts.
C23_WeekOrderIsStrictIncrease ==
    /\ (HasModel /\ symmetry) =>
          \A w \in Weeks(n) : Plays(kind, opp[w], 0, w + 1)
    /\ (status = "built" /\ kind = "mip" /\ symmetry) =>
          /\ \A oo \in OppTable("mip", n, FALSE) :
                mip_week_order(n, oo, Weeks(n)) <=> ZeroOppIncreasing(n, oo)
          /\ {MipAsSmt(n, f[1]) : f \in models} = OppTable("smt", n, TRUE)
          /\ {MipAsSat(n, f[1]) : f \in models} = OppTable("sat_np", n, TRUE)

\* C23 witness: a solution of the MILP satisfiability model of 6 teams with
\* the week-ordering constraints, in which team 0 meets the teams 1 to 5 in
\* this order
C23_Witness ==
    /\ kind = "mip"
    /\ n = 6
    /\ symmetry
    /\ status = "saved"
    /\ \A w \in Weeks(n) : opp[w][0] = {w + 1}

\* C27: in every optimal solution of each MILP optimization model the
\* binary breaks[w][t] is 1 exactly when team t has the same home status in
\* the weeks w and w + 1, so the objective is the number of breaks that is
\* counted from the home variables.
C27_BreakBinariesCountBreaks ==
    status = "optimal" =>
        /\ \A w \in 0..(W(n) - 2) : \A t \in Teams(n) :
              breaks[w][t] = 1 <=> home[w][t] = home[w + 1][t]
        /\ break_sum(n, breaks) = total_breaks
        /\ break_sum(n, breaks) = calculate_breaks(n, home)

\* the part of C27 on the model of MILP_Optimization_SB.py
C27_SymmetricModelCountsBreaks ==
    kind = "mip_opt" => C27_BreakBinariesCountBreaks

\* an optimal solution has the objective n - 2, the lower bound that both
\* models hold as a constraint
OptimalAtLowerBound ==
    status = "optimal" => break_sum(n, breaks) = n - 2

\* whether the whole constraint set of the model kd holds
Accepted(kd) ==
    accepts[kd].opp /\ accepts[kd].period /\ accepts[kd].home

\* C30: without symmetry breaking a choice of opponent, period and home
\* status per (week, team) satisfies the constraint set of the SAT model,
\* in either encoding, exactly when it satisfies the one of the SMT model
\* and exactly when it satisfies the one of the MILP model; the constraints
\* on the opponents agree too, and under opponents they accept so do the
\* constraints on the periods and those on the homes.
C30_FormulationsAcceptTheSame ==
    accepts # <<>> =>
        \A kd \in Formulations :
            /\ Accepted(kd) = Accepted("smt")
            /\ accepts[kd].opp = accepts["smt"].opp
            /\ accepts["smt"].opp =>
                  /\ accepts[kd].period = accepts["smt"].period
                  /\ accepts[kd].home = accepts["smt"].home

\* C30 witness: a choice of 6 teams was accepted by the three formulations
C30_Witness ==
    /\ accepts # <<>>
    /\ n = 6
    /\ \A kd \in Formulations : Accepted(kd)

\* choices that the formulations reject for the opponents, for the periods
\* alone and for the homes alone
C30_RejectedOpponents ==
    accepts # <<>> /\ n = 6 /\ \A kd \in Formulations : ~accepts[kd].opp
C30_RejectedPeriods ==
    /\ accepts # <<>> /\ n = 6
    /\ \A kd \in Formulations :
          accepts[kd].opp /\ ~accepts[kd].period /\ accepts[kd].home
C30_RejectedHomes ==
    /\ accepts # <<>> /\ n = 6
    /\ \A kd \in Formulations :
          accepts[kd].opp /\ accepts[kd].period /\ ~accepts[kd].home

(***************************************************************************)
(* Properties of the certification.                                        *)
(***************************************************************************)
\* the log has a line with the word unsatisfiable, in some letter case
LogHasWord(output) ==
    \E i \in 1..Len(output) :
        output[i].k = "text" /\ output[i].chars \in UnsatTexts

\* the log has a line of dashes or of equal signs
LogHasMarker(output) ==
    \E i \in 1..Len(output) : output[i].k = "marker"

\* the log has an objective line with digits, of value v
LogHasObjective(output, v) ==
    \E i \in 1..Len(output) :
        output[i].k = "obj" /\ output[i].form # "obj = ?" /\ output[i].v = v

\* the log has the Period lines of a complete schedule of k teams
LogHasSchedule(output, k) ==
    \E sol \in ExampleSols(k) :
        \A q \in 1..P(k) :
            \E i \in 1..Len(output) :
                output[i].k = "period" /\ output[i].m = sol[q]

CpParsed == pipeline = "cp" /\ pc \in {"parsed", "saved"} /\ ~input.raised

\* the rows of the Period lines of the log that hold a match, in order
LogRows(output) ==
    LET found == SelectSeq(output, LAMBDA line : line.k = "period" /\ line.m # <<>>)
    IN  [i \in 1..Len(found) |-> found[i].m]

\* C21: if the log matches none of the known patterns (no line that starts
\* with "Period" holds an "a v b" match), parse_minizinc_output returns the
\* empty schedule sol = [], never a partly guessed one.
C21_UnmatchedLogGivesEmptySol ==
    (CpParsed /\ LogRows(input.output) = <<>>) =>
        /\ result[1].sol = <<>>
        /\ (pc = "saved" => record[1].sol = <<>>)

\* C21 witness: a log with a "Period" line without a match followed by a
\* line of matches was parsed to the empty schedule
C21_Witness ==
    /\ CpParsed
    /\ LogRows(input.output) = <<>>
    /\ Len(input.output) >= 2
    /\ input.output[1].k = "period"
    /\ input.output[2].k = "matches"
    /\ result[1].sol = <<>>

\* C28: when the log, complete or partial after a timeout, holds several
\* solution blocks, parse_minizinc_output returns the last block only: P
\* rows, and no concatenation of the rows of different blocks.
C28_LastSolutionBlockReturned ==
    (CpParsed /\ Len(LogRows(input.output)) > P(input.n)) =>
        LET rows == LogRows(input.output)
        IN  /\ Len(result[1].sol) = P(input.n)
            /\ result[1].sol = SubSeq(rows, Len(rows) - P(input.n) + 1, Len(rows))

\* C6: in an optimization run (whose log does not say unsatisfiable),
\* parse_minizinc_output returns optimal = true only if the log carries the
\* marker and the parsed objective is n - 2, and then it returns that obj.
C6_OptimalOnlyWithMarkerAndBound ==
    (CpParsed /\ input.is_optimization /\ ~LogHasWord(input.output)) =>
        (result[1].optimal =>
            /\ LogHasMarker(input.output)
            /\ result[1].obj = Some(optimal_objective(input.n)))

\* C7: in the MILP and SMT optimization runs the saved record of a schedule
\* has optimal = true only if the solver proved optimality (MILP status
\* Optimal; the loop of model_optimized ended with the answer unsat) and the
\* objective is n - 2; model_optimized sets its flag only after such a proof.
C7_OptimalOnlyWhenProved ==
    /\ (pipeline = "smt_opt" /\ pc \in {"returned", "saved"}
            /\ result[1].optimal) =>
          loop.result_check = "unsat"
    /\ (pipeline = "smt_opt" /\ pc = "saved" /\ record[1].optimal
            /\ record[1].sol # <<>>) =>
          /\ loop.result_check = "unsat"
          /\ record[1].obj = Some(optimal_objective(input.n))
    /\ (pipeline = "mip" /\ pc = "saved" /\ input.is_optimization
            /\ record[1].optimal /\ record[1].sol # <<>>) =>
          /\ input.run.lp_status = "Optimal"
          /\ record[1].obj = Some(optimal_objective(input.n))

\* C8: whenever the log has the word unsatisfiable, in any letter case,
\* parse_minizinc_output returns optimal = true, sol = [] and obj = None,
\* whatever else the log holds and whichever kind of run it is.
C8_UnsatisfiableLogIsOptimalEmpty ==
    (CpParsed /\ LogHasWord(input.output)) =>
        /\ result[1].optimal
        /\ result[1].sol = <<>>
        /\ result[1].obj = None

\* C8 witness: an optimization log with the Period lines of a schedule, an
\* objective, a marker and the word in lower case was parsed to the empty
\* certified result
C8_Witness ==
    /\ CpParsed
    /\ input.is_optimization
    /\ input.n = 6
    /\ LogHasSchedule(input.output, 6)
    /\ LogHasMarker(input.output)
    /\ LogHasObjective(input.output, 4)
    /\ \E i \in 1..Len(input.output) :
           input.output[i].k = "text" /\ input.output[i].chars = unsatisfiable
    /\ result[1].optimal
    /\ result[1].sol = <<>>

\* the solver of the run proved the instance infeasible: z3's first check
\* answered unsat, the MILP status is Infeasible
ProvedInfeasible ==
    \/ pipeline \in {"sat", "smt"} /\ input.run.check = "unsat"
    \/ pipeline = "smt_opt" /\ loop # <<>> /\ loop.iteration = 1
          /\ loop.result_check = "unsat"
    \/ pipeline = "mip" /\ input.run.lp_status = "Infeasible"

\* C9: in the SAT, SMT and MILP pipelines the saved record of a run whose
\* solver proved the instance infeasible has optimal = true and an empty
\* schedule, however long the proof took and whatever the time limit.
C9_InfeasibleIsOptimalEmpty ==
    (pc = "saved" /\ ProvedInfeasible) =>
        /\ record[1].optimal
        /\ record[1].sol = <<>>

\* C29: a result with optimal = true and an empty schedule comes only from
\* a proof of infeasibility: parse_minizinc_output returns one only for a
\* log that holds UNSATISFIABLE, and the SAT, SMT and MILP pipelines save one
\* only when the solver proved the instance infeasible, never after a
\* timeout, an unknown answer or a failure.
C29_ParsedOptimalEmptyOnlyOnUnsatisfiable ==
    (CpParsed /\ result[1].optimal /\ result[1].sol = <<>>) =>
        has_unsatisfiable(input.output)
C29_SavedOptimalEmptyOnlyOnProof ==
    (pipeline \in {"sat", "smt", "smt_opt", "mip"} /\ pc = "saved"
        /\ record[1].optimal /\ record[1].sol = <<>>) =>
        ProvedInfeasible
C29_OptimalEmptyOnlyOnProof ==
    /\ C29_ParsedOptimalEmptyOnlyOnUnsatisfiable
    /\ C29_SavedOptimalEmptyOnlyOnProof

\* the time run_minizinc_model_direct returned for the parsed log, in ms
CpRanTime ==
    cp_run_result(result[1], input.expired, input.execution_time,
                  input.time_limit).time

\* a satisfiability run in which a complete schedule was found and extracted
FoundCompleteSchedule ==
    \/ pipeline \in {"sat", "smt"} /\ input.run.check = "sat"
    \/ pipeline = "mip" /\ ~input.is_optimization
          /\ has_solution(input.run.lp_status, input.run.any_value)
          /\ is_complete_solution(input.run.sol)
    \/ pipeline = "cp" /\ ~input.is_optimization
          /\ LogHasSchedule(input.output, input.n)

\* C10 as the specification states it: the record of a satisfiability run
\* that found and extracted a complete schedule has optimal = true.
C10_CompleteScheduleIsOptimal ==
    (pc = "saved" /\ FoundCompleteSchedule) => record[1].optimal

\* C10: the record of a satisfiability run that found and extracted a
\* complete schedule has optimal = true in the SAT and SMT pipelines; in the
\* MILP pipeline exactly when the solver status is Optimal; in the CP
\* pipeline the parser returns optimal = true exactly when the log carries a
\* marker or the word unsatisfiable, and the record keeps it unless the
\* subprocess timed out or the recorded time exceeds the limit by more than
\* the buffer.
C10_CompleteScheduleOptimalWhenSolverSaysSo ==
    /\ (pc = "saved" /\ FoundCompleteSchedule /\ pipeline \in {"sat", "smt"}) =>
          /\ record[1].optimal
          /\ is_complete_solution(record[1].sol)
    /\ (pc = "saved" /\ FoundCompleteSchedule /\ pipeline = "mip") =>
          /\ record[1].optimal <=> input.run.lp_status = "Optimal"
          /\ record[1].sol = input.run.sol
    /\ (CpParsed /\ FoundCompleteSchedule /\ pipeline = "cp") =>
          /\ result[1].optimal <=>
                (LogHasMarker(input.output) \/ LogHasWord(input.output))
          /\ pc = "saved" =>
                (record[1].optimal <=>
                    /\ result[1].optimal
                    /\ ~input.expired
                    /\ CpRanTime <= Seconds(input.time_limit + TimeBuffer))

\* C10 witness: a MILP satisfiability run ended with status Not Solved and a
\* complete schedule, and its record is not optimal
C10_Witness ==
    /\ pipeline = "mip" /\ pc = "saved"
    /\ ~input.is_optimization
    /\ input.n = 6
    /\ input.run.lp_status = "Not Solved"
    /\ is_complete_solution(input.run.sol)
    /\ record[1].sol = input.run.sol
    /\ ~record[1].optimal

\* the time budget ended the solve of the run: z3's check answered unknown,
\* the minizinc subprocess ran into its timeout
TimedOut ==
    \/ pipeline \in {"sat", "smt"} /\ input.run.check = "unknown"
    \/ pipeline = "cp" /\ input.expired

\* the "time" of the saved record, in seconds (the CP record holds ms)
RecordSeconds ==
    IF pipeline = "cp" THEN record[1].time \div 1000 ELSE record[1].time

\* C11: under every configured time limit T, the record of a solve that the
\* time budget ended has optimal = false and time = T.
C11_TimeoutRecordedAtLimit ==
    (pc = "saved" /\ TimedOut) =>
        /\ ~record[1].optimal
        /\ RecordSeconds = input.time_limit

\* C12: every saved record has time <= T: in the CP pipeline
\* solve_instance_direct returns no time above T + 5, and time = T with
\* optimal = false when the time it got exceeds T + 5; in the SAT, MILP and
\* SMT pipelines the recorded time does not exceed T on any path (schedule
\* found, none found, exception).
C12_RecordedTimeWithinLimit ==
    /\ (pc = "saved" /\ pipeline = "cp") =>
          /\ record[1].time <= Seconds(input.time_limit + TimeBuffer)
          /\ (~input.raised
                 /\ CpRanTime > Seconds(input.time_limit + TimeBuffer)) =>
                /\ record[1].time = Seconds(input.time_limit)
                /\ ~record[1].optimal
    /\ (pc = "saved" /\ pipeline # "cp") =>
          record[1].time <= input.time_limit

\* the backend of the run failed with an exception
BackendRaised ==
    \/ pipeline \in {"sat", "smt"} /\ input.run.check = "raise"
    \/ pipeline = "smt_opt" /\ loop # <<>> /\ loop.result_check = "raise"
    \/ pipeline = "mip" /\ input.run.lp_status = "raise"
    \/ pipeline = "cp" /\ input.raised

\* C13: in every pipeline and under every time limit T, the record of a run
\* whose backend raised an exception has optimal = false, an empty schedule
\* and time = T.
C13_FailureRecordedAsTimeout ==
    (pc = "saved" /\ BackendRaised) =>
        /\ ~record[1].optimal
        /\ record[1].sol = <<>>
        /\ RecordSeconds = input.time_limit

\* the keys the save calls for k teams named, and the record of the last
\* call that named key
SavedKeys(k) ==
    UNION {DOMAIN saves[i].results : i \in {j \in 1..Len(saves) : saves[j].n = k}}
LastSaved(k, key) ==
    LET named == {i \in 1..Len(saves) :
                     saves[i].n = k /\ key \in DOMAIN saves[i].results}
        last == CHOOSE i \in named : \A j \in named : j <= i
    IN  saves[last].results[key]

\* the top-level keys of a file
FileKeys(file) == IF file.state = "missing" THEN {} ELSE DOMAIN file.data

\* C15: after any sequence of save_solution_to_json calls made one at a time
\* the file of n holds every key a call saved, with the record of the last
\* call that named it, and every key the file held before and no call named
\* is still there with its record, whatever the state of the file was.
C15_SavesMergeIntoStore ==
    \A k \in DOMAIN store :
        /\ \A key \in SavedKeys(k) :
              /\ key \in FileKeys(store[k])
              /\ store[k].data[key] = LastSaved(k, key)
        /\ \A key \in FileKeys(first_store[k]) \ SavedKeys(k) :
              /\ key \in FileKeys(store[k])
              /\ store[k].data[key] = first_store[k].data[key]

\* both concurrent calls returned
BothSaved == savers # <<>> /\ \A p \in Savers : savers[p].pc = "done"

\* the file lacks the record the call of process p saved
LostUpdate(p) ==
    LET file == store[savers[p].n]
        new == new_results(savers[p].util, savers[p].n, savers[p].results)
    IN  \E key \in DOMAIN new :
            key \notin FileKeys(file) \/ file.data[key] # new[key]

\* C16: two save_solution_to_json calls for the same n that run concurrently
\* can lose an update.  After both returned the file lacks the record of one
\* of the two exactly when neither call loaded the file after the dump of the
\* other (no lock orders the load-update-dump cycles), and it is then the
\* record of the call that dumped first that is lost, never both.
C16_ConcurrentSavesLoseUpdate ==
    BothSaved =>
        /\ (\E p \in Savers : LostUpdate(p))
              <=> (\A p \in Savers : ~savers[p].after_other)
        /\ ~(\A p \in Savers : LostUpdate(p))

\* C16 witness: both calls returned and the file lacks the record of the
\* first one
C16_Witness ==
    /\ BothSaved
    /\ LostUpdate(1)
    /\ ~LostUpdate(2)
    /\ "gecode_satisfiability_base" \notin FileKeys(store[savers[1].n])
    /\ savers[1].util = "cp"

\* the pairs (n, configuration key) of a batch, in the order of its loops
RECURSIVE PairsFrom(_, _, _)
PairsFrom(driver, i, c) ==
    IF i > Len(BatchInstances) THEN <<>>
    ELSE <<[n |-> BatchInstances[i], key |-> ConfigKeys(driver)[c]]>>
            \o (IF c = Len(ConfigKeys(driver)) THEN PairsFrom(driver, i + 1, 1)
                ELSE PairsFrom(driver, i, c + 1))
BatchPairs(driver) == PairsFrom(driver, 1, 1)

\* the pairs solved so far are the first pairs of the batch, in order
SolvedInOrder ==
    /\ Len(batch.solved) <= Len(BatchPairs(batch.driver))
    /\ \A j \in 1..Len(batch.solved) :
          /\ batch.solved[j].n = BatchPairs(batch.driver)[j].n
          /\ batch.solved[j].key = BatchPairs(batch.driver)[j].key

\* the file of every instance holds the record of every configuration and
\* nothing else
StoreComplete ==
    /\ Len(batch.solved) = Len(BatchPairs(batch.driver))
    /\ \A j \in 1..Len(batch.solved) :
          LET file == store[batch.solved[j].n]
          IN  /\ file.state = "object"
              /\ batch.solved[j].key \in DOMAIN file.data
              /\ file.data[batch.solved[j].key] = batch.solved[j].record
    /\ \A k \in DOMAIN store :
          Cardinality(DOMAIN store[k].data) = Len(ConfigKeys(batch.driver))

\* C14: in batch mode a failure inside the solve of one pair never aborts the
\* batch: the pairs are solved in the order of the loops whatever failed
\* before, the batch reaches its end, and then the file of each n holds one
\* record for every configuration of that n, the failed ones included.
C14_BatchSurvivesFailures ==
    /\ [](batch # <<>> => SolvedInOrder)
    /\ [](batch # <<>> /\ batch.pc = "done" => StoreComplete)
    /\ <>(batch # <<>> /\ batch.pc = "done")

\* C14 witness: a CP batch ended in which the solve of the first pair failed,
\* and the file of the first instance holds the record of the failure
C14_Witness ==
    /\ batch # <<>>
    /\ batch.driver = "cp"
    /\ batch.pc = "done"
    /\ batch.solved[1].raised
    /\ store[2].data["chuffed_satisfiability_ch_base"] = cp_run_exception
    /\ Len(batch.solved) = Len(BatchPairs("cp"))

\* a team count no tournament has: odd, or smaller than 2
InvalidTeams(k) == k % 2 # 0 \/ k < 2

\* C17: on every entry point a team count that is odd or smaller than 2 is
\* rejected with an error (the usage message of the SAT driver is counted as
\* one) before a constraint model is built, and no record is produced for it.
C17_InvalidTeamsRejected ==
    (call # <<>> /\ InvalidTeams(call.n)) =>
        /\ call.pc \in {"called", "error", "help"}
        /\ store[call.n].state = "missing"

\* the name of the auxiliary of recursion level i: name followed by i
\* underscores
LevelName(name, i) == name \o [j \in 1..i |-> "_"]

\* the literals a literal l is paired with in the pairs amo
PartnersOf(amo, l) ==
    {p[2] : p \in {q \in amo : q[1] = l}} \cup {p[1] : p \in {q \in amo : q[2] = l}}

\* C24: for k from 1 to 10 at_most_one_he terminates; for k <= 4 it is the
\* pairwise formula, with no auxiliary; for k > 4 each level has one
\* auxiliary y, pairwise with the first 3 literals, and its negation is
\* handed down with the remaining literals; there are ceil((k - 4) / 2) auxiliaries, and 6 pairs per
\* level plus at most 6 of the base.
C24_HeuleEncodingIsLinear ==
    he_accepts # "unset" =>
        LET k      == Len(bool_vals)
            bv     == InputVars(k)
            amo    == at_most_one_he(bv, CardName)
            levels == IF k <= 4 THEN 0 ELSE ((k - 4) + 1) \div 2
        IN  /\ k <= 4 => (amo = at_most_one_np(bv) /\ AuxOf(amo) = {})
            /\ AuxOf(amo) = {<<"y", "_">> \o LevelName(CardName, i) : i \in 0..(levels - 1)}
            /\ Cardinality(AuxOf(amo)) = levels
            /\ \A i \in 0..(levels - 1) :
                  LET y == Lit(<<"y", "_">> \o LevelName(CardName, i))
                  IN  /\ Cardinality(PartnersOf(amo, y)) = 3
                      /\ i = 0 => PartnersOf(amo, y) = {bv[j] : j \in 1..3}
                      /\ \A a \in PartnersOf(amo, y) :
                            PartnersOf(amo, a) = (PartnersOf(amo, y) \ {a}) \cup {y}
                      /\ PartnersOf(amo, Not(y)) # {}
                      /\ PartnersOf(amo, Not(y)) \cap PartnersOf(amo, y) = {}
            /\ Cardinality(amo) <= 6 * levels + 6
            /\ Cardinality(amo) >= 6 * levels
            /\ k > 4 => Cardinality(amo) <= 3 * k

\* C24 witness: the encoding of 10 propositions was built and checked; it
\* has 3 auxiliaries and 24 pairs, where the pairwise encoding has 45
C24_Witness ==
    /\ Len(bool_vals) = 10
    /\ he_accepts # "unset"
    /\ Cardinality(AuxOf(at_most_one_he(InputVars(10), CardName))) = 3
    /\ Cardinality(at_most_one_he(InputVars(10), CardName)) = 24
    /\ Cardinality(at_most_one_np(InputVars(10))) = 45

\* the number of variables a Sat_Model of k teams declares in lines 47-53
NumModelVars(k) == W(k) * k * k + W(k) * k + W(k) * k * P(k)

\* C25: in a Sat_Model built with the compact encoding no auxiliary is
\* shared: every call of Bool(f"y_{name}"), of whichever exactly-one
\* constraint and recursion level, declares a name that no earlier call
\* declared and that is no match, home or period variable.
C25_AuxiliariesNeverShared ==
    (sat_model # <<>> /\ sat_model.encoding = "he") =>
        /\ Cardinality(ModelVarNames(sat_model.n)) = NumModelVars(sat_model.n)
        /\ Cardinality(sat_model.symbols)
              = NumModelVars(sat_model.n) + sat_model.aux_made
        /\ \A v \in sat_model.symbols \ ModelVarNames(sat_model.n) : v[1] = "y"

\* C25 witness: the Sat_Model of 8 teams with the compact encoding has all
\* its constraints; the 56 team-week and the 28 match constraints, of 7
\* literals each, declared 2 auxiliaries each
C25_Witness ==
    /\ sat_model # <<>>
    /\ sat_model.encoding = "he"
    /\ sat_model.n = 8
    /\ sat_model.at = Len(ExactlyOneCalls(8)) + 1
    /\ sat_model.aux_made = 168

\* the number of sat answers of the loop so far
SatAnswers ==
    IF loop.result_check \in {"none", "sat"} THEN loop.iteration
    ELSE loop.iteration - 1

\* a sat answer follows an earlier one with a smaller objective
SatAnswerDecreases ==
    (pc = "loop" /\ loop.bound # None /\ loop'.result_check = "sat"
        /\ loop'.iteration = loop.iteration + 1) =>
            loop'.bound[1] < loop.bound[1]

\* C26: in the improvement loop, whatever solutions the solver returns, the
\* objectives of successive sat answers are strictly decreasing, so best_obj
\* is the least objective seen; there are at most (n-2)^2 + 1 sat answers;
\* and when the loop ends with unsat after a sat answer, the returned obj is
\* the least total-break value of the solutions of the model.
C26_LoopDescendsToMinimum ==
    /\ [][SatAnswerDecreases]_vars
    /\ [](loop # <<>> =>
            /\ loop.bound # None =>
                  /\ loop.best_obj = loop.bound
                  /\ loop.best_model = loop.bound
                  /\ loop.bound[1] \in input.feasible
            /\ SatAnswers <= (input.n - 2) * (input.n - 2) + 1
            /\ (pc = "returned" /\ loop.result_check = "unsat"
                    /\ loop.iteration > 1) =>
                  /\ result[1].obj # None
                  /\ result[1].obj[1] \in input.feasible
                  /\ \A v \in input.feasible : result[1].obj[1] <= v)

\* C26 witness: for 6 teams and a model with solutions of every objective
\* from 4 to 20 the solver answered sat 17 times, from 20 down to 4, then
\* unsat, and 4 was returned
C26_Witness ==
    /\ pc = "returned"
    /\ input.n = 6
    /\ input.feasible = 4..20
    /\ loop.iteration = 18
    /\ loop.result_check = "unsat"
    /\ result[1].obj = Some(4)

\* the number of true propositions
NumTrue(xs) == Cardinality({i \in 1..Len(xs) : xs[i]})

\* C2: each encoding accepts an assignment of k >= 1 propositions exactly when
\* one proposition is true, so the two agree; for k = 1 the at-most-one part
\* of either encoding is empty.
C2_EncodingsExactlyOne ==
    /\ np_accepts # "unset" => (np_accepts = "sat" <=> NumTrue(bool_vals) = 1)
    /\ he_accepts # "unset" => (he_accepts = "sat" <=> NumTrue(bool_vals) = 1)
    /\ (np_accepts # "unset" /\ he_accepts # "unset") => np_accepts = he_accepts
    /\ Len(bool_vals) = 1 =>
          /\ at_most_one_np(InputVars(1)) = {}
          /\ at_most_one_he(InputVars(1), CardName) = {}

\* C2 witness: k = 10, two propositions true, both encodings answered unsat
C2_Witness ==
    /\ Len(bool_vals) = 10
    /\ NumTrue(bool_vals) = 2
    /\ np_accepts = "unsat"
    /\ he_accepts = "unsat"

====
